---- MODULE Spec2Model ----
(***************************************************************************)
(* Model of n8n-nodes-opencode-ai: the temporary-session lifecycle of the  *)
(* message-sending call sites (send, sendAsync, command, shell, skill, the *)
(* tool adapter and the chat-model adapter), the flattening of a response  *)
(* into text, the model selector encoding, the dynamic option loaders, the *)
(* shell and skill output, the command payload, the dispatch and execute   *)
(* loop of the node, the abort timer of the chat model, the transport      *)
(* client, interleaved invocations of one adapter, the text and the tool   *)
(* calls of the chat model, and the optional fields of the message         *)
(* payload.  Each part has its own specification over the shared           *)
(* variables.                                                              *)
(***************************************************************************)
EXTENDS Integers, Sequences, FiniteSets, TLC

VARIABLES
    \* ---- session lifecycle of one invocation of a call site ----
    site,                 \* the call site that is running
    sessionMode,          \* parameter sessionMode
    cfgSessionId,         \* parameter sessionId (its declared default is '')
    pc,                   \* position of the invocation
    sessionId,            \* local sessionId of the handler
    shouldDeleteSession,  \* local shouldDeleteSession of the handler
    requests,             \* network requests issued by this invocation, in order
    inner,                \* outcome of the inner (action) request
    outcome,              \* what the caller of the handler sees
    remote,               \* sessions that exist on the remote service
    nextId,               \* next session id the remote service hands out
    invocations,          \* invocations started so far
    deleteResult,         \* how the cleanup DELETE of this invocation settled
    \* ---- response flattening of the send action ----
    tPc, tResponse, tTrimOpt, tSimple, tKeyOpt, tText, tRecord,
    \* ---- text returned by the tool adapter for the same response ----
    tToolPc, tTool,
    \* ---- model selector ----
    mPc, mProvider, mModel, mValue, mSite, mPayload,
    \* ---- dynamic option providers ----
    oPc, oLoader, oResponse, oResult, oThrew,
    \* ---- output of the shell and skill actions ----
    sPc, sSite, sResponse, sTrimOpt, sRaw, sOutput,
    \* ---- payload of the command action ----
    cPc, cSource, cRaw, cPayload,
    \* ---- execute loop of the OpenCode node ----
    ePc, eResource, eOperation, eItems, eContinue, eIndex, eReturnData, eCalls,
    eFailed, eThrown, eOutput,
    \* ---- ChatOpenCode._generate and its abort timer ----
    gPc, gTemp, gCfgId, gTimeout, gClock, gTimer, gSessionId, gDelete, gOutcome,
    gRequests,
    \* ---- transport client of the action handlers ----
    aPc, aRequest, aAttempts, aFailure, aCause, aResult,
    \* ---- one supplied tool or chat model over several invocations ----
    hPc, hSite, hMode, hCfg, hLog,
    \* ---- interleaved invocations of one supplied tool or chat model ----
    xSupplied, xSite, xMode, xCfg, xField, xPc, xId, xDel, xReqs, xOwner, xNext,
    \* ---- the text the chat model adapter sends ----
    fPc, fBound, fPassed, fMessages, fPayload,
    \* ---- the tool calls the chat model adapter reads ----
    kPc, kBound, kPassed, kReply, kMessage,
    \* ---- the payload options of send and sendAsync ----
    uPc, uSite, uOptions, uRequests, uOutcome

lifeVars == <<site, sessionMode, cfgSessionId, pc, sessionId, shouldDeleteSession,
              requests, inner, outcome, remote, nextId, invocations, deleteResult>>
textVars == <<tPc, tResponse, tTrimOpt, tSimple, tKeyOpt, tText, tRecord,
              tToolPc, tTool>>
modelVars == <<mPc, mProvider, mModel, mValue, mSite, mPayload>>
optVars == <<oPc, oLoader, oResponse, oResult, oThrew>>
shellVars == <<sPc, sSite, sResponse, sTrimOpt, sRaw, sOutput>>
cmdVars == <<cPc, cSource, cRaw, cPayload>>
execVars == <<ePc, eResource, eOperation, eItems, eContinue, eIndex, eReturnData,
              eCalls, eFailed, eThrown, eOutput>>
chatVars == <<gPc, gTemp, gCfgId, gTimeout, gClock, gTimer, gSessionId, gDelete,
              gOutcome, gRequests>>
apiVars == <<aPc, aRequest, aAttempts, aFailure, aCause, aResult>>
histVars == <<hPc, hSite, hMode, hCfg, hLog>>
concVars == <<xSupplied, xSite, xMode, xCfg, xField, xPc, xId, xDel, xReqs,
              xOwner, xNext>>
flatVars == <<fPc, fBound, fPassed, fMessages, fPayload>>
callVars == <<kPc, kBound, kPassed, kReply, kMessage>>
toolsVars == <<uPc, uSite, uOptions, uRequests, uOutcome>>
vars == <<lifeVars, textVars, modelVars, optVars, shellVars, cmdVars,
          execVars, chatVars, apiVars, histVars, concVars, flatVars, callVars,
          toolsVars>>

----------------------------------------------------------------------------
(* Bounds *)

MaxInvocations == 3
MaxTextLen == 1
MaxParts == 2
MaxIdLen == 2
MaxItems == 2
MaxInputItems == 2
MaxTimeout == 2
MaxCalls == 2

----------------------------------------------------------------------------
(* Session lifecycle *)

ActionSites == {"send", "sendAsync", "command", "shell", "skill"}
Sites == ActionSites \cup {"tool", "chat"}
SessionModes == {"existing", "temporary"}

\* values of the sessionId parameter: the declared default '' or a chosen session
\* session ids are pairs <<origin, n>>; NoId stands for '' / undefined
NoId == <<"none", 0>>
ExistingId == <<"cfg", 1>>
TempId(n) == <<"tmp", n>>
ConfiguredIds == {NoId, ExistingId}

\* results of one HTTP exchange: a 2xx answer, a non-2xx answer, no answer
HttpResults == {"ok", "status", "transport"}
Responses == {"r1", "r2"}

None == [kind |-> "none"]
Value(r) == [kind |-> "value", val |-> r]
Error(origin, cause) == [kind |-> "error", val |-> <<origin, cause>>]

\* the endpoint each call site posts its action request to
Endpoint(s) ==
    CASE s = "send" -> "message"
      [] s = "sendAsync" -> "prompt_async"
      [] s = "command" -> "command"
      [] s = "shell" -> "shell"
      [] s = "skill" -> "message"
      [] s = "tool" -> "message"
      [] s = "chat" -> "message"

CreateRequest == [method |-> "POST", path |-> "session", id |-> NoId]
ActionRequest(s, id) == [method |-> "POST", path |-> Endpoint(s), id |-> id]
DeleteRequest(id) == [method |-> "DELETE", path |-> "session", id |-> id]

\* variant: every invocation treated as temporary
useTemporarySessionAlways(m) == TRUE

\* sessionMode === 'temporary'
useTemporarySession(m) == m = "temporary"

\* helpers.httpRequest and the wrapper around it throw on every non-2xx
\* answer and on every transport failure
openCodeApiRequest(res) == IF res = "ok" THEN "returned" ELSE "threw"

\* variant: deleteSession without the try/catch
deleteSessionNoCatch(res) == openCodeApiRequest(res)

\* helpers/api deleteSession: the request is wrapped in try/catch
deleteSession(res) ==
    IF openCodeApiRequest(res) = "threw" THEN "returned" ELSE "returned"

\* the tool adapter's own deleteSession: try/catch around helpers.httpRequest
ToolDeleteSession(res) ==
    IF res # "ok" THEN "returned" ELSE "returned"

\* ChatOpenCode.deleteSession: fetch rejects on a transport failure and there
\* is no try/catch; a non-ok status is only logged
ChatDeleteSession(res) ==
    IF res = "transport" THEN "threw" ELSE "returned"

DeleteSessionOf(s, res) ==
    CASE s \in ActionSites -> deleteSession(res)
      [] s = "tool" -> ToolDeleteSession(res)
      [] s = "chat" -> ChatDeleteSession(res)

\* variant: the handler has no cleanup
CleanupNeededNever(s, del, id) == FALSE

\* variant: the handler deletes whatever session it used
CleanupNeededAlways(s, del, id) == TRUE

\* the condition of the finally block
CleanupNeeded(s, del, id) ==
    IF s = "chat" THEN del /\ id # NoId ELSE del

\* ChatOpenCode._generate: if (!sessionId) throw
MissingSessionCheck(s, id) == s = "chat" /\ id = NoId

LifeInit ==
    /\ site = "send"
    /\ sessionMode = "existing"
    /\ cfgSessionId = NoId
    /\ pc = "idle"
    /\ sessionId = NoId
    /\ shouldDeleteSession = FALSE
    /\ requests = <<>>
    /\ inner = None
    /\ outcome = None
    /\ remote = {ExistingId}
    /\ nextId = 1
    /\ invocations = 0
    /\ deleteResult = "none"

\* variant: a temporary session left by the previous invocation is used again
StartReusingSession(s, m, c) ==
    /\ pc \in {"idle", "done"}
    /\ invocations < MaxInvocations
    /\ invocations' = invocations + 1
    /\ site' = s
    /\ sessionMode' = m
    /\ cfgSessionId' = c
    /\ inner' = None
    /\ deleteResult' = "none"
    /\ outcome' = None
    /\ shouldDeleteSession' = FALSE
    /\ UNCHANGED <<remote, nextId>>
    /\ IF useTemporarySession(m) /\ sessionId = NoId
       THEN /\ requests' = <<CreateRequest>>
            /\ sessionId' = NoId
            /\ pc' = "creating"
       ELSE /\ sessionId' = IF useTemporarySession(m) THEN sessionId ELSE c
            /\ requests' = <<ActionRequest(s, sessionId')>>
            /\ pc' = "sending"

\* entry of a handler up to its first await
Start(s, m, c) ==
    /\ pc \in {"idle", "done"}
    /\ invocations < MaxInvocations
    /\ invocations' = invocations + 1
    /\ site' = s
    /\ sessionMode' = m
    /\ cfgSessionId' = c
    /\ inner' = None
    /\ deleteResult' = "none"
    /\ UNCHANGED <<remote, nextId>>
    /\ IF useTemporarySession(m)
       THEN /\ requests' = <<CreateRequest>>
            /\ sessionId' = NoId
            /\ shouldDeleteSession' = FALSE
            /\ outcome' = None
            /\ pc' = "creating"
       ELSE /\ sessionId' = c
            /\ shouldDeleteSession' = FALSE
            /\ IF MissingSessionCheck(s, c)
               THEN /\ requests' = <<>>
                    /\ outcome' = Error("session", "missing")
                    /\ pc' = "done"
               ELSE /\ requests' = <<ActionRequest(s, c)>>
                    /\ outcome' = None
                    /\ pc' = "sending"

\* POST /session answered with 2xx; the body may lack an id
CreateReturns(hasId) ==
    /\ pc = "creating"
    /\ LET id == IF hasId THEN TempId(nextId) ELSE NoId IN
       /\ sessionId' = id
       /\ shouldDeleteSession' = TRUE
       /\ remote' = remote \cup {TempId(nextId)}
       /\ nextId' = nextId + 1
       /\ IF MissingSessionCheck(site, id)
          THEN /\ requests' = requests
               /\ outcome' = Error("session", "missing")
               /\ pc' = "done"
          ELSE /\ requests' = Append(requests, ActionRequest(site, id))
               /\ outcome' = outcome
               /\ pc' = "sending"
    /\ UNCHANGED <<site, sessionMode, cfgSessionId, inner, invocations, deleteResult>>

\* variant: the failure of POST /session is swallowed and the action goes on
CreateFailsSwallowed(res) ==
    /\ pc = "creating"
    /\ res # "ok"
    /\ requests' = Append(requests, ActionRequest(site, NoId))
    /\ pc' = "sending"
    /\ UNCHANGED <<site, sessionMode, cfgSessionId, sessionId, shouldDeleteSession,
                   outcome, inner, remote, nextId, invocations, deleteResult>>

\* POST /session failed: createSession throws before the try block
CreateFails(res) ==
    /\ pc = "creating"
    /\ res # "ok"
    /\ outcome' = Error("create", res)
    /\ pc' = "done"
    /\ UNCHANGED <<site, sessionMode, cfgSessionId, sessionId, shouldDeleteSession,
                   requests, inner, remote, nextId, invocations, deleteResult>>

\* variant: the result is handed to the caller before the cleanup has finished
FinallyReturnsFirst(io) ==
    /\ inner' = io
    /\ outcome' = io
    /\ IF CleanupNeeded(site, shouldDeleteSession, sessionId)
       THEN /\ requests' = Append(requests, DeleteRequest(sessionId))
            /\ pc' = "deleting"
       ELSE /\ requests' = requests
            /\ pc' = "done"
    /\ UNCHANGED <<site, sessionMode, cfgSessionId, sessionId, shouldDeleteSession,
                   remote, nextId, invocations, deleteResult>>

\* the finally block after the inner request settled with result io
Finally(io) ==
    /\ inner' = io
    /\ IF CleanupNeeded(site, shouldDeleteSession, sessionId)
       THEN /\ requests' = Append(requests, DeleteRequest(sessionId))
            /\ outcome' = outcome
            /\ pc' = "deleting"
       ELSE /\ requests' = requests
            /\ outcome' = io
            /\ pc' = "done"
    /\ UNCHANGED <<site, sessionMode, cfgSessionId, sessionId, shouldDeleteSession,
                   remote, nextId, invocations, deleteResult>>

SendReturns(r) ==
    /\ pc = "sending"
    /\ Finally(Value(r))

SendFails(res) ==
    /\ pc = "sending"
    /\ res # "ok"
    /\ Finally(Error("send", res))

\* the chat-model adapter's timer aborts the pending fetch
SendAborted ==
    /\ pc = "sending"
    /\ site = "chat"
    /\ Finally(Error("send", "timeout"))

\* the DELETE settled with result res
DeleteSettles(res) ==
    /\ pc = "deleting"
    /\ deleteResult' = res
    /\ remote' = IF res = "ok" THEN remote \ {sessionId} ELSE remote
    /\ outcome' = IF DeleteSessionOf(site, res) = "threw"
                  THEN Error("delete", res)
                  ELSE inner
    /\ pc' = "done"
    /\ UNCHANGED <<site, sessionMode, cfgSessionId, sessionId, shouldDeleteSession,
                   requests, inner, nextId, invocations>>

StartAny == \E s \in Sites, m \in SessionModes, c \in ConfiguredIds : Start(s, m, c)
CreateReturnsAny == \E b \in BOOLEAN : CreateReturns(b)
CreateFailsAny == \E res \in HttpResults : CreateFails(res)
SendReturnsAny == \E r \in Responses : SendReturns(r)
SendFailsAny == \E res \in HttpResults : SendFails(res)
DeleteSettlesAny == \E res \in HttpResults : DeleteSettles(res)


----------------------------------------------------------------------------
(* Response flattening of the send action.  Texts are sequences of          *)
(* characters.                                                              *)

InputChars == {"4", "a", " "}
Newline == "\n"
Texts == UNION {[1..k -> InputChars] : k \in 0..MaxTextLen}

\* a response part: its type, and its text field when it has one
TextParts == {[type |-> "text", hasText |-> TRUE, text |-> t] : t \in Texts}
                \cup {[type |-> "text", hasText |-> FALSE, text |-> <<>>]}
OtherParts == {[type |-> "tool", hasText |-> TRUE, text |-> <<"a">>]}
Parts == TextParts \cup OtherParts
PartLists == UNION {[1..k -> Parts] : k \in 0..MaxParts}
SendResponses == {[hasParts |-> FALSE, parts |-> <<>>]}
                    \cup {[hasParts |-> TRUE, parts |-> ps] : ps \in PartLists}

TrimOptions == {"unset", "on", "off"}
KeyOptions == {<<>>, <<"a">>}
DefaultResponseKey == <<"r">>

NoRecord == [kind |-> "none", key |-> <<>>, text |-> <<>>, num |-> 0]

\* response.parts || []
partsOf(resp) == IF resp.hasParts THEN resp.parts ELSE <<>>

\* p.type === 'text'
isTextPart(p) == p.type = "text"

\* p.text || ''
textOf(p) == IF p.hasText THEN p.text ELSE <<>>

\* variant: Array.prototype.join('')
RECURSIVE joinNoSeparator(_, _)
joinNoSeparator(ts, sep) ==
    IF ts = <<>> THEN <<>> ELSE ts[1] \o joinNoSeparator(Tail(ts), sep)

\* Array.prototype.join(sep)
RECURSIVE join(_, _)
join(ts, sep) ==
    IF ts = <<>> THEN <<>>
    ELSE IF Len(ts) = 1 THEN ts[1]
    ELSE ts[1] \o sep \o join(Tail(ts), sep)

isSpace(c) == c \in {" ", Newline}

RECURSIVE trimStart(_)
trimStart(t) ==
    IF t # <<>> /\ isSpace(Head(t)) THEN trimStart(Tail(t)) ELSE t

RECURSIVE trimEnd(_)
trimEnd(t) ==
    IF t # <<>> /\ isSpace(t[Len(t)]) THEN trimEnd(SubSeq(t, 1, Len(t) - 1)) ELSE t

\* String.prototype.trim
trim(t) == trimEnd(trimStart(t))

\* options.trimResponse ?? true
trimResponse(opt) == IF opt = "unset" THEN TRUE ELSE opt = "on"

\* options.responseKey || 'response'
responseKey(opt) == IF opt = <<>> THEN DefaultResponseKey ELSE opt

\* filter(type === 'text').map(text || '').join('\n')
extractText(resp) ==
    LET kept == SelectSeq(partsOf(resp), isTextPart)
        texts == [i \in 1..Len(kept) |-> textOf(kept[i])]
    IN join(texts, <<Newline>>)

responseText(resp, opt) ==
    IF trimResponse(opt) THEN trim(extractText(resp)) ELSE extractText(resp)

RECURSIVE numberOf(_)
numberOf(ds) == IF ds = <<>> THEN 0 ELSE 10 * numberOf(SubSeq(ds, 1, Len(ds) - 1)) + 4

\* variant: the text is never read as JSON
JSONParseNever(t) == [ok |-> FALSE, value |-> 0]

\* JSON.parse over the characters of this model: optional white space around
\* one number; everything else throws
JSONParse(t) ==
    LET body == trimEnd(trimStart(t)) IN
    IF body # <<>> /\ \A i \in 1..Len(body) : body[i] = "4"
    THEN [ok |-> TRUE, value |-> numberOf(body)]
    ELSE [ok |-> FALSE, value |-> 0]

\* the record sendMessage emits
sendRecord(resp, opt, simple, keyOpt) ==
    LET text == responseText(resp, opt)
        parsed == JSONParse(text)
    IN IF simple
       THEN IF parsed.ok
            THEN [kind |-> "json", key |-> <<>>, text |-> <<>>, num |-> parsed.value]
            ELSE [kind |-> "keyed", key |-> responseKey(keyOpt), text |-> text, num |-> 0]
       ELSE [kind |-> "full", key |-> responseKey(keyOpt), text |-> text, num |-> 0]

\* sendMessage after the await of the message request
SendResponds(resp, opt, simple, keyOpt) ==
    /\ tPc = "idle"
    /\ tPc' = "done"
    /\ tResponse' = resp
    /\ tTrimOpt' = opt
    /\ tSimple' = simple
    /\ tKeyOpt' = keyOpt
    /\ tText' = responseText(resp, opt)
    /\ tRecord' = sendRecord(resp, opt, simple, keyOpt)
    /\ UNCHANGED <<tToolPc, tTool>>

SendRespondsAny ==
    /\ tPc = "idle"
    /\ \E resp \in SendResponses, opt \in TrimOptions, simple \in BOOLEAN,
          keyOpt \in KeyOptions : SendResponds(resp, opt, simple, keyOpt)

\* variant: the tool returns the joined text as it is
toolResponseTextUntrimmed(resp) == extractText(resp)

\* the tool adapter: filter(type === 'text').map(text || '').join('\n').trim()
toolResponseText(resp) == trim(extractText(resp))

\* the tool adapter's sendMessage after the await of the message request,
\* for the response the send action was given
ToolResponds ==
    /\ tPc = "done"
    /\ tToolPc = "idle"
    /\ tToolPc' = "done"
    /\ tTool' = toolResponseText(tResponse)
    /\ UNCHANGED <<tPc, tResponse, tTrimOpt, tSimple, tKeyOpt, tText, tRecord>>

TextInit ==
    /\ tPc = "idle"
    /\ tResponse = [hasParts |-> FALSE, parts |-> <<>>]
    /\ tTrimOpt = "unset"
    /\ tSimple = FALSE
    /\ tKeyOpt = <<>>
    /\ tText = <<>>
    /\ tRecord = NoRecord
    /\ tToolPc = "idle"
    /\ tTool = <<>>

----------------------------------------------------------------------------
(* Model selector: the option value built by getModels and its decoding in  *)
(* the message handlers.                                                    *)

IdChars == {"a", ":"}
\* provider and model ids are non-empty
Ids == UNION {[1..k -> IdChars] : k \in 1..MaxIdLen}
Separator == <<":", ":">>

\* the second executeCommand source sends the model as one string
DecodeSites == Sites \cup {"command2"}

NoModel == [kind |-> "unset", providerID |-> <<>>, modelID |-> <<>>, str |-> <<>>]

\* `${provider.id}::${model.id}`
modelOptionValue(p, m) == p \o Separator \o m

\* index of the first "::" in t at or after position i, 0 when there is none
RECURSIVE indexOf(_, _)
indexOf(t, i) ==
    IF i + 1 > Len(t) THEN 0
    ELSE IF t[i] = ":" /\ t[i + 1] = ":" THEN i
    ELSE indexOf(t, i + 1)

\* String.prototype.includes('::')
includes(t) == indexOf(t, 1) # 0

\* String.prototype.split('::')
RECURSIVE split(_)
split(t) ==
    LET i == indexOf(t, 1) IN
    IF i = 0 THEN <<t>>
    ELSE <<SubSeq(t, 1, i - 1)>> \o split(SubSeq(t, i + 2, Len(t)))

\* String.prototype.replace('::', '/'): the first occurrence only
replace(t) ==
    LET i == indexOf(t, 1) IN
    IF i = 0 THEN t
    ELSE SubSeq(t, 1, i - 1) \o <<"/">> \o SubSeq(t, i + 2, Len(t))

\* if (model && model.includes('::')) { const [providerID, modelID] = model.split('::') }
decodeModel(value) ==
    IF value # <<>> /\ includes(value)
    THEN LET pieces == split(value) IN
         [kind |-> "pair", providerID |-> pieces[1], modelID |-> pieces[2], str |-> <<>>]
    ELSE NoModel

\* if (model && model.includes('::')) payload.model = model.replace('::', '/')
decodeModelAsString(value) ==
    IF value # <<>> /\ includes(value)
    THEN [kind |-> "string", providerID |-> <<>>, modelID |-> <<>>, str |-> replace(value)]
    ELSE NoModel

payloadModel(s, value) ==
    IF s = "command2" THEN decodeModelAsString(value) ELSE decodeModel(value)

ModelInit ==
    /\ mPc = "idle"
    /\ mProvider = <<>>
    /\ mModel = <<>>
    /\ mValue = <<>>
    /\ mSite = "send"
    /\ mPayload = NoModel

\* getModels builds the option value of one model of one provider and the
\* user selects it
LoadModel(p, m) ==
    /\ mPc = "idle"
    /\ mPc' = "loaded"
    /\ mProvider' = p
    /\ mModel' = m
    /\ mValue' = modelOptionValue(p, m)
    /\ UNCHANGED <<mSite, mPayload>>

\* a message handler builds payload.model from the selected value
DecodeModel(s) ==
    /\ mPc = "loaded"
    /\ mPc' = "decoded"
    /\ mSite' = s
    /\ mPayload' = payloadModel(s, mValue)
    /\ UNCHANGED <<mProvider, mModel, mValue>>

LoadModelAny == mPc = "idle" /\ \E p \in Ids, m \in Ids : LoadModel(p, m)
DecodeModelAny == mPc = "loaded" /\ \E s \in DecodeSites : DecodeModel(s)

----------------------------------------------------------------------------
(* Dynamic option providers *)

Loaders == {"getSessions", "getModels", "getAgents", "getCommands", "getSkills"}
Names == {"a", "b"}

\* what the remote service (for getSkills: the directory scan) can hand back;
\* an item carries the fields the loaders read
Item(n, i, t, pr, k) ==
    [name |-> n, hasId |-> i, hasTitle |-> t, primary |-> pr, models |-> k]
SessionItems == {Item(n, i, t, FALSE, 0) : n \in Names, i \in BOOLEAN, t \in BOOLEAN}
ProviderItems == {Item("a", TRUE, FALSE, FALSE, k) : k \in 0..2}
AgentItems == {Item(n, TRUE, FALSE, pr, 0) : n \in Names, pr \in BOOLEAN}
CommandItems == {Item(n, TRUE, t, FALSE, 0) : n \in Names, t \in BOOLEAN}
SkillItems == {Item(n, TRUE, FALSE, FALSE, 0) : n \in Names}

ItemsOf(l) ==
    CASE l = "getSessions" -> SessionItems
      [] l = "getModels" -> ProviderItems
      [] l = "getAgents" -> AgentItems
      [] l = "getCommands" -> CommandItems
      [] l = "getSkills" -> SkillItems

ItemLists(l) == UNION {[1..k -> ItemsOf(l)] : k \in 0..MaxItems}

\* kinds: the request failed; the body is an array; the body is an object
\* (for getModels its providers field holds the items, for the others the
\* object is one item); the body is null
\* getSkills reads directories: the scan fails or yields the skills found
LoaderResponses(l) ==
    {[kind |-> "fail", items |-> <<>>]}
        \cup {[kind |-> "array", items |-> is] : is \in ItemLists(l)}
        \cup IF l = "getSkills" THEN {}
             ELSE {[kind |-> "null", items |-> <<>>]}
                    \cup {[kind |-> "object", items |-> is] :
                            is \in IF l = "getModels" THEN ItemLists(l)
                                   ELSE {<<it>> : it \in ItemsOf(l)}}

Option(n, v) == [name |-> n, value |-> v]
Returned(os) == [threw |-> FALSE, options |-> os]

\* getSessions
getSessions(resp) ==
    IF resp.kind = "fail" THEN Returned(<<Option("Error loading sessions", "")>>)
    ELSE IF resp.kind = "null" THEN Returned(<<Option("Error loading sessions", "")>>)
    ELSE LET sessions == resp.items IN
         IF \E i \in 1..Len(sessions) : ~sessions[i].hasTitle /\ ~sessions[i].hasId
         THEN Returned(<<Option("Error loading sessions", "")>>)
         ELSE Returned([i \in 1..Len(sessions) |->
                Option(IF sessions[i].hasTitle THEN "title" ELSE "Session id...",
                       IF sessions[i].hasId THEN sessions[i].name ELSE "undefined")])

RECURSIVE modelOptions(_)
modelOptions(providers) ==
    IF providers = <<>> THEN <<>>
    ELSE [k \in 1..Head(providers).models |-> Option("provider: model", "p::m")]
            \o modelOptions(Tail(providers))

\* getModels
getModels(resp) ==
    IF resp.kind \in {"fail", "null"} THEN Returned(<<Option("(Default)", "")>>)
    ELSE LET providers == IF resp.kind = "object" THEN resp.items ELSE <<>> IN
         Returned(<<Option("(Default)", "")>> \o modelOptions(providers))

\* getAgents
getAgents(resp) ==
    IF resp.kind = "fail" THEN Returned(<<Option("(Default)", "")>>)
    ELSE LET agents == IF resp.kind = "array" THEN resp.items ELSE <<>>
             primaries == SelectSeq(agents, LAMBDA a : a.primary)
             others == SelectSeq(agents, LAMBDA a : ~a.primary)
             first == IF primaries = <<>> THEN <<>>
                      ELSE <<Option("(Primary)", primaries[1].name)>>
         IN Returned(first \o [i \in 1..Len(others) |->
                                Option(others[i].name, others[i].name)])

\* getCommands
getCommands(resp) ==
    IF resp.kind = "fail" THEN Returned(<<Option("Error loading commands", "")>>)
    ELSE LET commands == IF resp.kind = "array" THEN resp.items ELSE <<>> IN
         Returned([i \in 1..Len(commands) |->
                    Option(commands[i].name, commands[i].name)])

\* the skills of all directories without duplicates by name, first one kept
RECURSIVE dedupe(_, _)
dedupe(skills, seen) ==
    IF skills = <<>> THEN <<>>
    ELSE IF Head(skills).name \in seen THEN dedupe(Tail(skills), seen)
    ELSE <<Head(skills)>> \o dedupe(Tail(skills), seen \cup {Head(skills).name})

\* allSkills.sort by name, over the names of this model
sortByName(skills) ==
    SelectSeq(skills, LAMBDA k : k.name = "a") \o SelectSeq(skills, LAMBDA k : k.name = "b")

\* getSkills
getSkills(resp) ==
    IF resp.kind = "fail" THEN Returned(<<Option("Error loading skills", "")>>)
    ELSE LET allSkills == sortByName(dedupe(resp.items, {})) IN
         IF Len(allSkills) = 0 THEN Returned(<<Option("No skills found", "")>>)
         ELSE Returned([i \in 1..Len(allSkills) |->
                        Option(allSkills[i].name, allSkills[i].name)])

loadOptions(l, resp) ==
    CASE l = "getSessions" -> getSessions(resp)
      [] l = "getModels" -> getModels(resp)
      [] l = "getAgents" -> getAgents(resp)
      [] l = "getCommands" -> getCommands(resp)
      [] l = "getSkills" -> getSkills(resp)

OptInit ==
    /\ oPc = "idle"
    /\ oLoader = "getSessions"
    /\ oResponse = [kind |-> "fail", items |-> <<>>]
    /\ oResult = <<>>
    /\ oThrew = FALSE

\* the host calls one option loader, which gets resp from its source
LoadOptions(l, resp) ==
    /\ oPc = "idle"
    /\ oPc' = "done"
    /\ oLoader' = l
    /\ oResponse' = resp
    /\ oResult' = loadOptions(l, resp).options
    /\ oThrew' = loadOptions(l, resp).threw

LoadOptionsAny ==
    /\ oPc = "idle"
    /\ \E l \in Loaders : \E resp \in LoaderResponses(l) : LoadOptions(l, resp)


----------------------------------------------------------------------------
(* Output of the shell and skill actions *)

OutputSites == {"shell", "skill"}

\* parts of a response to /shell or /message: a part has a type, maybe a
\* text, and maybe a state with an output and a metadata output
ShellPart(ty, ht, t, hs, ho, o, hm, m) ==
    [type |-> ty, hasText |-> ht, text |-> t, hasState |-> hs,
     hasOutput |-> ho, output |-> o, hasMeta |-> hm, meta |-> m]

ShellParts ==
    { ShellPart("text", TRUE, <<"t">>, FALSE, FALSE, <<>>, FALSE, <<>>),
      ShellPart("text", TRUE, <<" ">>, TRUE, TRUE, <<"a">>, FALSE, <<>>),
      ShellPart("tool", FALSE, <<>>, FALSE, FALSE, <<>>, FALSE, <<>>),
      ShellPart("tool", FALSE, <<>>, TRUE, TRUE, <<"a">>, FALSE, <<>>),
      ShellPart("tool", TRUE, <<"t">>, TRUE, TRUE, <<"a">>, TRUE, <<"b">>),
      ShellPart("tool", FALSE, <<>>, TRUE, FALSE, <<>>, TRUE, <<"b">>),
      ShellPart("tool", FALSE, <<>>, TRUE, TRUE, <<>>, TRUE, <<"b">>),
      ShellPart("tool", FALSE, <<>>, TRUE, FALSE, <<>>, FALSE, <<>>),
      ShellPart("tool", FALSE, <<>>, TRUE, TRUE, <<" ">>, FALSE, <<>>) }

ShellPartLists == UNION {[1..k -> ShellParts] : k \in 0..MaxParts}
ShellResponses == {[hasParts |-> FALSE, parts |-> <<>>]}
                    \cup {[hasParts |-> TRUE, parts |-> ps] : ps \in ShellPartLists}

\* part.type === 'tool' && part.state
hasToolState(p) == p.type = "tool" /\ p.hasState

\* variant: part.state.output || ''
stateOutputOnly(p) == IF p.hasOutput THEN p.output ELSE <<>>

\* part.state.output || part.state.metadata?.output || ''
stateOutput(p) ==
    IF p.hasOutput /\ p.output # <<>> THEN p.output
    ELSE IF p.hasMeta /\ p.meta # <<>> THEN p.meta
    ELSE <<>>

\* for (const part of parts) { if (...) { if (output) shellOutput += output } }
RECURSIVE shellOutput(_)
shellOutput(ps) ==
    IF ps = <<>> THEN <<>>
    ELSE LET before == shellOutput(SubSeq(ps, 1, Len(ps) - 1))
             part == ps[Len(ps)]
         IN IF hasToolState(part) THEN before \o stateOutput(part) ELSE before

\* variant: the skill output is read from the tool parts
skillTextFromTools(resp) == shellOutput(partsOf(resp))

\* executeSkill: filter(type === 'text').map(text || '').join('\n')
skillText(resp) == extractText(resp)

\* if (trimResponse) x = x.trim()
applyTrim(t, opt) == IF trimResponse(opt) THEN trim(t) ELSE t

\* executeShell after the await of the shell request
ExecuteShellResponds(resp, opt) ==
    /\ sPc = "idle"
    /\ sPc' = "done"
    /\ sSite' = "shell"
    /\ sResponse' = resp
    /\ sTrimOpt' = opt
    /\ sRaw' = shellOutput(partsOf(resp))
    /\ sOutput' = applyTrim(shellOutput(partsOf(resp)), opt)

\* executeSkill after the await of the message request
ExecuteSkillResponds(resp, opt) ==
    /\ sPc = "idle"
    /\ sPc' = "done"
    /\ sSite' = "skill"
    /\ sResponse' = resp
    /\ sTrimOpt' = opt
    /\ sRaw' = skillText(resp)
    /\ sOutput' = applyTrim(skillText(resp), opt)

ExecuteShellRespondsAny ==
    /\ sPc = "idle"
    /\ \E resp \in ShellResponses, opt \in TrimOptions : ExecuteShellResponds(resp, opt)

ExecuteSkillRespondsAny ==
    /\ sPc = "idle"
    /\ \E resp \in ShellResponses, opt \in TrimOptions : ExecuteSkillResponds(resp, opt)

ShellInit ==
    /\ sPc = "idle"
    /\ sSite = "shell"
    /\ sResponse = [hasParts |-> FALSE, parts |-> <<>>]
    /\ sTrimOpt = "unset"
    /\ sRaw = <<>>
    /\ sOutput = <<>>

----------------------------------------------------------------------------
(* Payload of the command action.  The repository holds two sources of      *)
(* executeCommand: "command" parses the arguments, "command2" sends them as *)
(* they were typed.                                                         *)

CommandSources == {"command", "command2"}
CommandNames == {"c1", "c2"}
OptionalIds == {"", "x"}
CommandModels == {<<>>, <<"a">>, modelOptionValue(<<"a">>, <<"a">>)}

NoArguments == [kind |-> "unset", num |-> 0, str |-> <<>>]
NoPayload == [command |-> "", arguments |-> NoArguments, hasMessageID |-> FALSE,
              hasAgent |-> FALSE, model |-> NoModel]

\* if (commandArguments) { try { JSON.parse } catch { { input } } } else { {} }
parseArguments(raw) ==
    IF raw # <<>>
    THEN LET parsed == JSONParse(raw) IN
         IF parsed.ok
         THEN [kind |-> "json", num |-> parsed.value, str |-> <<>>]
         ELSE [kind |-> "input", num |-> 0, str |-> raw]
    ELSE [kind |-> "object", num |-> 0, str |-> <<>>]

\* arguments: commandArguments || ''
rawArguments(raw) == [kind |-> "string", num |-> 0, str |-> raw]

commandArgumentsOf(src, raw) ==
    IF src = "command2" THEN rawArguments(raw) ELSE parseArguments(raw)

\* the payload executeCommand builds before its request
commandPayload(src, name, raw, messageId, agent, model) ==
    [command |-> name,
     arguments |-> commandArgumentsOf(src, raw),
     hasMessageID |-> messageId # "",
     hasAgent |-> agent # "",
     model |-> payloadModel(src, model)]

\* executeCommand from its try to the request
ExecuteCommandBuilds(src, name, raw, messageId, agent, model) ==
    /\ cPc = "idle"
    /\ cPc' = "built"
    /\ cSource' = src
    /\ cRaw' = raw
    /\ cPayload' = commandPayload(src, name, raw, messageId, agent, model)

ExecuteCommandBuildsAny ==
    /\ cPc = "idle"
    /\ \E src \in CommandSources, name \in CommandNames, raw \in Texts,
          messageId \in OptionalIds, agent \in OptionalIds, model \in CommandModels :
            ExecuteCommandBuilds(src, name, raw, messageId, agent, model)

CommandInit ==
    /\ cPc = "idle"
    /\ cSource = "command"
    /\ cRaw = <<>>
    /\ cPayload = NoPayload

----------------------------------------------------------------------------
(* The execute loop of the OpenCode node and the dispatch of one item *)

Resources == {"session", "message", "config"}

\* the operations the node offers for each resource
SessionOperations == {"list", "get", "create", "delete", "abort", "status"}
MessageOperations == {"send", "sendAsync", "command", "shell", "skill", "list", "get"}
ConfigOperations == {"getProviders"}

OfferedOperations(r) ==
    CASE r = "session" -> SessionOperations
      [] r = "message" -> MessageOperations
      [] r = "config" -> ConfigOperations
      [] OTHER -> {}

\* values the two parameters can hold: the offered ones and one that is not
ResourceValues == Resources \cup {"other"}
OperationValues ==
    SessionOperations \cup MessageOperations \cup ConfigOperations \cup {"other"}

Routed(h) == [routed |-> TRUE, handler |-> h, error |-> None]
Unrouted(what, name) == [routed |-> FALSE, handler |-> "", error |-> Error(what, name)]

executeSessionAction(operation) ==
    CASE operation = "list" -> Routed("listSessions")
      [] operation = "get" -> Routed("getSession")
      [] operation = "create" -> Routed("createSession")
      [] operation = "delete" -> Routed("deleteSession")
      [] operation = "abort" -> Routed("abortSession")
      [] operation = "status" -> Routed("getSessionStatus")
      [] OTHER -> Unrouted("Unknown session operation", operation)

executeMessageAction(operation) ==
    CASE operation = "send" -> Routed("sendMessage")
      [] operation = "sendAsync" -> Routed("sendMessageAsync")
      [] operation = "list" -> Routed("listMessages")
      [] operation = "get" -> Routed("getMessage")
      [] operation = "command" -> Routed("executeCommand")
      [] operation = "shell" -> Routed("executeShell")
      [] OTHER -> Unrouted("Unknown message operation", operation)

executeConfigAction(operation) ==
    CASE operation = "getProviders" -> Routed("getProviders")
      [] OTHER -> Unrouted("Unknown config operation", operation)

\* variant: a resource that is not known is treated as message
executeActionDefaultMessage(resource, operation) ==
    CASE resource = "session" -> executeSessionAction(operation)
      [] resource = "config" -> executeConfigAction(operation)
      [] OTHER -> executeMessageAction(operation)

executeAction(resource, operation) ==
    CASE resource = "session" -> executeSessionAction(operation)
      [] resource = "message" -> executeMessageAction(operation)
      [] resource = "config" -> executeConfigAction(operation)
      [] OTHER -> Unrouted("Unknown resource", resource)

\* handlers that run their request inside a session scope
ScopedHandlers == {"sendMessage", "sendMessageAsync", "executeCommand", "executeShell"}
\* handlers that emit one record per element of the response
ListHandlers == {"listSessions", "listMessages"}

\* what the remote service does during one handler run
HandlerEnvs == [mode : SessionModes, create : HttpResults, action : HttpResults,
                count : 1..2]

Call(i, kind) == [item |-> i, kind |-> kind]

\* variant: the session is deleted only after an action that succeeded
runHandlerWithoutFinally(h, i, env) ==
    LET temporary == h \in ScopedHandlers /\ useTemporarySession(env.mode) IN
    IF temporary /\ openCodeApiRequest(env.create) = "threw"
    THEN [ok |-> FALSE, count |-> 0, error |-> Error("create", env.create),
          calls |-> <<Call(i, "create")>>]
    ELSE IF openCodeApiRequest(env.action) = "threw"
    THEN [ok |-> FALSE, count |-> 0, error |-> Error("action", env.action),
          calls |-> IF temporary THEN <<Call(i, "create"), Call(i, "action")>>
                    ELSE <<Call(i, "action")>>]
    ELSE [ok |-> TRUE, count |-> IF h \in ListHandlers THEN env.count ELSE 1,
          error |-> None,
          calls |-> IF temporary
                    THEN <<Call(i, "create"), Call(i, "action"), Call(i, "delete")>>
                    ELSE <<Call(i, "action")>>]

\* one run of a routed handler for item i: the requests it issues and what
\* it returns or throws
runHandler(h, i, env) ==
    LET temporary == h \in ScopedHandlers /\ useTemporarySession(env.mode) IN
    IF temporary /\ openCodeApiRequest(env.create) = "threw"
    THEN [ok |-> FALSE, count |-> 0, error |-> Error("create", env.create),
          calls |-> <<Call(i, "create")>>]
    ELSE LET calls == IF temporary
                      THEN <<Call(i, "create"), Call(i, "action"), Call(i, "delete")>>
                      ELSE <<Call(i, "action")>>
         IN IF openCodeApiRequest(env.action) = "threw"
            THEN [ok |-> FALSE, count |-> 0, error |-> Error("action", env.action),
                  calls |-> calls]
            ELSE [ok |-> TRUE, count |-> IF h \in ListHandlers THEN env.count ELSE 1,
                  error |-> None, calls |-> calls]

\* await executeAction.call(this, resource, operation, i)
runItem(resource, operation, i, env) ==
    LET route == executeAction(resource, operation) IN
    IF route.routed THEN runHandler(route.handler, i, env)
    ELSE [ok |-> FALSE, count |-> 0, error |-> route.error, calls |-> <<>>]

DataRecord(i) == [kind |-> "data", item |-> i, message |-> None]
\* { json: { error: error.message }, pairedItem: { item: i } }
ErrorRecord(i, err) == [kind |-> "error", item |-> i, message |-> err]

\* variant: returnData.unshift(...results)
unshift(data, records) == records \o data

\* returnData.push(...results)
push(data, records) == data \o records

\* variant: the catch block rethrows whatever continueOnFail says
catchRethrows(cont) == "throw"

\* variant: the catch block never rethrows
catchContinues(cont) == "continue"

\* catch (error) { if (this.continueOnFail()) { push; continue } throw error }
catch(cont) == IF cont THEN "continue" ELSE "throw"

\* execute up to the loop
Execute(resource, operation, n, cont) ==
    /\ ePc = "idle"
    /\ ePc' = "loop"
    /\ eResource' = resource
    /\ eOperation' = operation
    /\ eItems' = n
    /\ eContinue' = cont
    /\ eIndex' = 0
    /\ UNCHANGED <<eReturnData, eCalls, eFailed, eThrown, eOutput>>

\* one iteration of the loop
ItemHandled(env) ==
    /\ ePc = "loop"
    /\ eIndex < eItems
    /\ LET run == runItem(eResource, eOperation, eIndex, env) IN
        /\ eCalls' = eCalls \o run.calls
        /\ IF run.ok
           THEN /\ eReturnData' =
                    push(eReturnData, [k \in 1..run.count |-> DataRecord(eIndex)])
                /\ eIndex' = eIndex + 1
                /\ UNCHANGED <<ePc, eFailed, eThrown>>
           ELSE /\ eFailed' = Append(eFailed, [item |-> eIndex, error |-> run.error])
                /\ IF catch(eContinue) = "continue"
                   THEN /\ eReturnData' =
                            push(eReturnData, <<ErrorRecord(eIndex, run.error)>>)
                        /\ eIndex' = eIndex + 1
                        /\ UNCHANGED <<ePc, eThrown>>
                   ELSE /\ ePc' = "threw"
                        /\ eThrown' = run.error
                        /\ UNCHANGED <<eReturnData, eIndex>>
    /\ UNCHANGED <<eResource, eOperation, eItems, eContinue, eOutput>>

\* return [returnData]
ExecuteReturns ==
    /\ ePc = "loop"
    /\ eIndex = eItems
    /\ ePc' = "returned"
    /\ eOutput' = Value(eReturnData)
    /\ UNCHANGED <<eResource, eOperation, eItems, eContinue, eIndex, eReturnData,
                   eCalls, eFailed, eThrown>>

ExecuteAny ==
    /\ ePc = "idle"
    /\ \E resource \in ResourceValues, operation \in OperationValues,
          n \in 0..MaxInputItems, cont \in BOOLEAN :
            Execute(resource, operation, n, cont)

ItemHandledAny ==
    /\ ePc = "loop"
    /\ eIndex < eItems
    /\ \E env \in HandlerEnvs : ItemHandled(env)

ExecInit ==
    /\ ePc = "idle"
    /\ eResource = "session"
    /\ eOperation = "list"
    /\ eItems = 0
    /\ eContinue = FALSE
    /\ eIndex = 0
    /\ eReturnData = <<>>
    /\ eCalls = <<>>
    /\ eFailed = <<>>
    /\ eThrown = None
    /\ eOutput = None

----------------------------------------------------------------------------
(* ChatOpenCode._generate with its abort timer.  Time is counted in ticks   *)
(* from the moment the timer is set; the timer callback runs when the clock *)
(* reaches the configured timeout, unless the timer was cleared before.     *)

Timeouts == 1..MaxTimeout
BodyResults == {"ok", "fails"}

\* the timer callback is due
timerDue == gTimer = "armed" /\ gClock = gTimeout

\* the send call of _generate is waiting for the remote service
sendPending == gPc \in {"fetching", "reading"}

\* new AbortController(); setTimeout(() => controller.abort(), this.timeout); fetch(...)
ChatSendStarts(id) ==
    /\ gPc' = "fetching"
    /\ gTimer' = "armed"
    /\ gClock' = 0
    /\ gRequests' = Append(gRequests, ActionRequest("chat", id))

\* the finally block of _generate
ChatFinally(out) ==
    /\ gOutcome' = out
    /\ IF CleanupNeeded("chat", gDelete, gSessionId)
       THEN /\ gPc' = "deleting"
            /\ gRequests' = Append(gRequests, DeleteRequest(gSessionId))
       ELSE /\ gPc' = "done"
            /\ UNCHANGED gRequests

\* _generate up to its first await
Generate(temp, c, t) ==
    /\ gPc = "idle"
    /\ gTemp' = temp
    /\ gCfgId' = c
    /\ gTimeout' = t
    /\ gDelete' = FALSE
    /\ IF temp
       THEN /\ gPc' = "creating"
            /\ gRequests' = Append(gRequests, CreateRequest)
            /\ UNCHANGED <<gSessionId, gTimer, gClock, gOutcome>>
       ELSE /\ gSessionId' = c
            /\ IF MissingSessionCheck("chat", c)
               THEN /\ gPc' = "done"
                    /\ gOutcome' = Error("generate", "missing")
                    /\ UNCHANGED <<gTimer, gClock, gRequests>>
               ELSE /\ ChatSendStarts(c)
                    /\ UNCHANGED gOutcome

\* createSession returns response.id, which may be missing
ChatCreateReturns(hasId) ==
    /\ gPc = "creating"
    /\ gDelete' = TRUE
    /\ gSessionId' = IF hasId THEN TempId(1) ELSE NoId
    /\ IF ~hasId
       THEN /\ gPc' = "done"
            /\ gOutcome' = Error("generate", "missing")
            /\ UNCHANGED <<gTimer, gClock, gRequests>>
       ELSE /\ ChatSendStarts(TempId(1))
            /\ UNCHANGED gOutcome
    /\ UNCHANGED <<gTemp, gCfgId, gTimeout>>

\* createSession throws: fetch rejected or the status is not ok
ChatCreateFails(res) ==
    /\ gPc = "creating"
    /\ res # "ok"
    /\ gPc' = "done"
    /\ gOutcome' = Error("create", res)
    /\ UNCHANGED <<gTemp, gCfgId, gTimeout, gDelete, gSessionId, gTimer, gClock,
                   gRequests>>

\* await fetch(...) resolves with the status line and headers;
\* clearTimeout(timeoutId); if (!response.ok) throw
FetchResolves(res) ==
    /\ gPc = "fetching"
    /\ res \in {"ok", "status"}
    /\ gTimer' = "cleared"
    /\ IF res = "ok"
       THEN /\ gPc' = "reading"
            /\ UNCHANGED <<gOutcome, gRequests>>
       ELSE ChatFinally(Error("send", "status"))
    /\ UNCHANGED <<gTemp, gCfgId, gTimeout, gDelete, gSessionId, gClock>>

\* await fetch(...) rejects for a reason other than the abort
FetchRejects ==
    /\ gPc = "fetching"
    /\ gTimer' = "cleared"
    /\ ChatFinally(Error("send", "transport"))
    /\ UNCHANGED <<gTemp, gCfgId, gTimeout, gDelete, gSessionId, gClock>>

\* the timer callback: controller.abort() rejects the pending call with an
\* AbortError, which the catch turns into the timeout error
TimerFires ==
    /\ sendPending
    /\ timerDue
    /\ gTimer' = "fired"
    /\ ChatFinally(Error("send", "timeout"))
    /\ UNCHANGED <<gTemp, gCfgId, gTimeout, gDelete, gSessionId, gClock>>

\* await response.json() settles
BodyRead(res, r) ==
    /\ gPc = "reading"
    /\ ChatFinally(IF res = "ok" THEN Value(r) ELSE Error("send", "body"))
    /\ UNCHANGED <<gTemp, gCfgId, gTimeout, gDelete, gSessionId, gClock, gTimer>>

\* one tick passes while the send call is pending; a due timer runs first
Tick ==
    /\ sendPending
    /\ ~timerDue
    /\ gClock <= gTimeout
    /\ gClock' = gClock + 1
    /\ UNCHANGED <<gPc, gTemp, gCfgId, gTimeout, gDelete, gSessionId, gTimer,
                   gOutcome, gRequests>>

\* await this.deleteSession(sessionId) in the finally block
ChatDeleteSettles(res) ==
    /\ gPc = "deleting"
    /\ gPc' = "done"
    /\ gOutcome' = IF ChatDeleteSession(res) = "threw" THEN Error("delete", res)
                   ELSE gOutcome
    /\ UNCHANGED <<gTemp, gCfgId, gTimeout, gDelete, gSessionId, gTimer, gClock,
                   gRequests>>

GenerateAny ==
    /\ gPc = "idle"
    /\ \E temp \in BOOLEAN, c \in ConfiguredIds, t \in Timeouts : Generate(temp, c, t)

ChatCreateReturnsAny == \E hasId \in BOOLEAN : ChatCreateReturns(hasId)
ChatCreateFailsAny == \E res \in HttpResults : ChatCreateFails(res)
FetchResolvesAny == \E res \in HttpResults : FetchResolves(res)
BodyReadAny == \E res \in BodyResults, r \in Responses : BodyRead(res, r)
ChatDeleteSettlesAny == \E res \in HttpResults : ChatDeleteSettles(res)

ChatInit ==
    /\ gPc = "idle"
    /\ gTemp = FALSE
    /\ gCfgId = NoId
    /\ gTimeout = 1
    /\ gClock = 0
    /\ gTimer = "unset"
    /\ gSessionId = NoId
    /\ gDelete = FALSE
    /\ gOutcome = None
    /\ gRequests = <<>>

----------------------------------------------------------------------------
(* The transport client of the action handlers *)

Methods == {"GET", "POST", "DELETE"}
ApiEndpoints == {"/session", "/session/:id", "/session/:id/message",
                 "/session/:id/prompt_async", "/session/:id/command",
                 "/session/:id/shell", "/session/:id/abort", "/config/providers"}

\* the message of the error helpers.httpRequest rejects with; it may be empty
UnderlyingMessages == {"", "timeout", "404"}
HttpFailures == {"status", "transport"}

NoRequest == [method |-> "GET", endpoint |-> "/session"]

\* variant: the error of the host is passed on as it is
requestFailedPassThrough(message) == Error("", message)

\* const errorMessage = error.message || 'Unknown error';
\* throw new Error(`OpenCode API request failed: ${errorMessage}`)
requestFailed(message) ==
    Error("OpenCode API request failed",
          IF message = "" THEN "Unknown error" ELSE message)

\* openCodeApiRequest up to await this.helpers.httpRequest(requestOptions)
ApiRequest(method, endpoint) ==
    /\ aPc = "idle"
    /\ aPc' = "pending"
    /\ aRequest' = [method |-> method, endpoint |-> endpoint]
    /\ aAttempts' = aAttempts + 1
    /\ UNCHANGED <<aFailure, aCause, aResult>>

\* helpers.httpRequest resolves: return response
ApiReturns(r) ==
    /\ aPc = "pending"
    /\ aPc' = "returned"
    /\ aResult' = Value(r)
    /\ UNCHANGED <<aRequest, aAttempts, aFailure, aCause>>

\* helpers.httpRequest rejects: the catch block throws the wrapped error
ApiThrows(failure, message) ==
    /\ aPc = "pending"
    /\ aPc' = "threw"
    /\ aFailure' = failure
    /\ aCause' = message
    /\ aResult' = requestFailed(message)
    /\ UNCHANGED <<aRequest, aAttempts>>

ApiRequestAny ==
    /\ aPc = "idle"
    /\ \E method \in Methods, endpoint \in ApiEndpoints : ApiRequest(method, endpoint)

ApiReturnsAny == \E r \in Responses : ApiReturns(r)
ApiThrowsAny ==
    \E failure \in HttpFailures, message \in UnderlyingMessages :
        ApiThrows(failure, message)

ApiInit ==
    /\ aPc = "idle"
    /\ aRequest = NoRequest
    /\ aAttempts = 0
    /\ aFailure = "none"
    /\ aCause = ""
    /\ aResult = None

----------------------------------------------------------------------------
(* One supplied tool or chat model over several invocations: what each      *)
(* invocation created, used and deleted.                                    *)

AdapterSites == {"tool", "chat"}

\* the record kept for one invocation
NewEntry == [creates |-> 0, created |-> <<>>, used |-> {}, deleted |-> <<>>]

idsOf(reqs) == [k \in 1..Len(reqs) |-> reqs[k].id]

\* the entry after the invocation issued the requests reqs and createSession
\* returned the ids in made
observe(entry, reqs, made) ==
    [creates |-> entry.creates + Len(SelectSeq(reqs, LAMBDA q : q = CreateRequest)),
     created |-> entry.created \o made,
     used |-> entry.used \cup
                {q.id : q \in {reqs[k] : k \in {j \in 1..Len(reqs) :
                                  reqs[j].method = "POST" /\ reqs[j].path # "session"}}},
     deleted |-> entry.deleted \o
                    idsOf(SelectSeq(reqs, LAMBDA q : q.method = "DELETE"))]

HistInit ==
    /\ hPc = "unsupplied"
    /\ hSite = "tool"
    /\ hMode = "existing"
    /\ hCfg = NoId
    /\ hLog = <<>>

----------------------------------------------------------------------------
(* Several invocations of one supplied tool or chat model running           *)
(* interleaved.  Each invocation has its own local sessionId and            *)
(* shouldDeleteSession; the configured session id is shared.  How a request *)
(* settles does not change which requests follow, so results are left out.  *)

Calls == 1..MaxCalls

\* variant: sessionId is one variable shared by all invocations
writeSessionIdShared(ids, p, id) == [q \in DOMAIN ids |-> id]

\* let sessionId; sessionId = ...: a local of the invocation
writeSessionId(ids, p, id) == [ids EXCEPT ![p] = id]

\* the invocation goes on after its sessionId is known
XProceed(p, id) ==
    IF MissingSessionCheck(xSite, id)
    THEN /\ xPc' = [xPc EXCEPT ![p] = "done"]
         /\ UNCHANGED xReqs
    ELSE /\ xPc' = [xPc EXCEPT ![p] = "sending"]
         /\ xReqs' = [xReqs EXCEPT ![p] = Append(@, ActionRequest(xSite, id))]

\* supplyData: the parameters are read once
XSupply(s, m, c) ==
    /\ xSupplied = FALSE
    /\ xSupplied' = TRUE
    /\ xSite' = s
    /\ xMode' = m
    /\ xCfg' = c
    /\ xField' = c
    /\ UNCHANGED <<xPc, xId, xDel, xReqs, xOwner, xNext>>

\* invocation p up to its first await
XStart(p) ==
    /\ xSupplied
    /\ xPc[p] = "idle"
    /\ IF useTemporarySession(xMode)
       THEN /\ xPc' = [xPc EXCEPT ![p] = "creating"]
            /\ xReqs' = [xReqs EXCEPT ![p] = <<CreateRequest>>]
            /\ UNCHANGED xId
       ELSE /\ xId' = writeSessionId(xId, p, xField)
            /\ XProceed(p, xId'[p])
    /\ UNCHANGED <<xSupplied, xSite, xMode, xCfg, xField, xDel, xOwner, xNext>>

\* createSession of invocation p returns
XCreateReturns(p, hasId) ==
    /\ xPc[p] = "creating"
    /\ xOwner' = xOwner \cup {<<TempId(xNext), p>>}
    /\ xNext' = xNext + 1
    /\ xId' = writeSessionId(xId, p, IF hasId THEN TempId(xNext) ELSE NoId)
    /\ xDel' = [xDel EXCEPT ![p] = TRUE]
    /\ XProceed(p, xId'[p])
    /\ UNCHANGED <<xSupplied, xSite, xMode, xCfg, xField>>

\* createSession of invocation p throws
XCreateFails(p) ==
    /\ xPc[p] = "creating"
    /\ xPc' = [xPc EXCEPT ![p] = "done"]
    /\ UNCHANGED <<xSupplied, xSite, xMode, xCfg, xField, xId, xDel, xReqs, xOwner,
                   xNext>>

\* the message request of invocation p settles: the finally block
XSendSettles(p) ==
    /\ xPc[p] = "sending"
    /\ IF CleanupNeeded(xSite, xDel[p], xId[p])
       THEN /\ xPc' = [xPc EXCEPT ![p] = "deleting"]
            /\ xReqs' = [xReqs EXCEPT ![p] = Append(@, DeleteRequest(xId[p]))]
       ELSE /\ xPc' = [xPc EXCEPT ![p] = "done"]
            /\ UNCHANGED xReqs
    /\ UNCHANGED <<xSupplied, xSite, xMode, xCfg, xField, xId, xDel, xOwner, xNext>>

\* the delete of invocation p settles
XDeleteSettles(p) ==
    /\ xPc[p] = "deleting"
    /\ xPc' = [xPc EXCEPT ![p] = "done"]
    /\ UNCHANGED <<xSupplied, xSite, xMode, xCfg, xField, xId, xDel, xReqs, xOwner,
                   xNext>>

XSupplyAny ==
    /\ xSupplied = FALSE
    /\ \E s \in AdapterSites, m \in SessionModes, c \in ConfiguredIds : XSupply(s, m, c)

XStartAny == \E p \in Calls : XStart(p)
XCreateReturnsAny == \E p \in Calls, hasId \in BOOLEAN : XCreateReturns(p, hasId)
XCreateFailsAny == \E p \in Calls : XCreateFails(p)
XSendSettlesAny == \E p \in Calls : XSendSettles(p)
XDeleteSettlesAny == \E p \in Calls : XDeleteSettles(p)

ConcInit ==
    /\ xSupplied = FALSE
    /\ xSite = "tool"
    /\ xMode = "existing"
    /\ xCfg = NoId
    /\ xField = NoId
    /\ xPc = [p \in Calls |-> "idle"]
    /\ xId = [p \in Calls |-> NoId]
    /\ xDel = [p \in Calls |-> FALSE]
    /\ xReqs = [p \in Calls |-> <<>>]
    /\ xOwner = {}
    /\ xNext = 1

----------------------------------------------------------------------------
(* The chat model adapter: the text it builds from the messages.  A text   *)
(* is a sequence of pieces: characters, and one piece for each fixed       *)
(* fragment the code writes.                                               *)

MaxMessages == 2

ToolDefinitions ==
    {[name |-> "a", description |-> "d", hasSchema |-> FALSE],
     [name |-> "b", description |-> "", hasSchema |-> TRUE]}
ToolLists == {<<>>} \cup {<<t>> : t \in ToolDefinitions}
NoTools == [set |-> FALSE, tools |-> <<>>]
\* boundTools of the instance, tools of the call options: unset or an array
ToolChoices == {NoTools} \cup {[set |-> TRUE, tools |-> ts] : ts \in ToolLists}

MessageTypes == {"system", "human", "ai", "tool"}
Contents ==
    {[kind |-> "string", text |-> <<"a">>, parts |-> <<>>],
     [kind |-> "array", text |-> <<>>,
      parts |-> <<[type |-> "text", text |-> <<"a">>],
                  [type |-> "image_url", text |-> <<>>],
                  [type |-> "text", text |-> <<"4">>]>>],
     [kind |-> "array", text |-> <<>>,
      parts |-> <<[type |-> "image_url", text |-> <<>>]>>]}
Messages == {[type |-> ty, content |-> c] : ty \in MessageTypes, c \in Contents}
MessageLists == UNION {[1..k -> Messages] : k \in 0..MaxMessages}

\* this.boundTools || options?.tools || []  (every array is truthy)
tools(bound, passed) ==
    IF bound.set THEN bound.tools
    ELSE IF passed.set THEN passed.tools ELSE <<>>

\* one tool of the instruction: name, description, and the schema if any
toolDescription(tool) ==
    <<"- ", tool.name, ": ", tool.description>>
        \o (IF tool.hasSchema THEN <<"\n  Parameters: ", "{schema}">> ELSE <<>>)

formatToolsAsPrompt(ts) ==
    <<"You have access to the following tools. [...] Available tools:\n">>
        \o join([k \in 1..Len(ts) |-> toolDescription(ts[k])],
                <<Newline, Newline>>)
        \o <<"\n\nIf you need to use a tool, respond ONLY with the JSON object. [...]">>

SystemMessage(text) ==
    [type |-> "system",
     content |-> [kind |-> "string", text |-> text, parts |-> <<>>]]

processedMessages(ts, messages) ==
    IF Len(ts) > 0
    THEN <<SystemMessage(formatToolsAsPrompt(ts))>> \o messages
    ELSE messages

prefix(type) ==
    IF type = "system" THEN <<"[System]: ">>
    ELSE IF type = "human" THEN <<"[User]: ">>
    ELSE IF type = "ai" THEN <<"[Assistant]: ">>
    ELSE <<>>

\* .filter(part.type === 'text').map(part.text)
RECURSIVE textsOfParts(_)
textsOfParts(ps) ==
    IF ps = <<>> THEN <<>>
    ELSE (IF ps[1].type = "text" THEN <<ps[1].text>> ELSE <<>>)
            \o textsOfParts(Tail(ps))

\* what one message adds to messageTexts: nothing, or one text
messageTextOf(msg) ==
    IF msg.content.kind = "string"
    THEN <<prefix(msg.type) \o msg.content.text>>
    ELSE LET text == join(textsOfParts(msg.content.parts), <<Newline>>)
         IN IF text # <<>> THEN <<prefix(msg.type) \o text>> ELSE <<>>

RECURSIVE messageTexts(_)
messageTexts(ms) ==
    IF ms = <<>> THEN <<>>
    ELSE messageTextOf(ms[1]) \o messageTexts(Tail(ms))

messageText(ms) == join(messageTexts(ms), <<Newline, Newline>>)

\* the payload of the message request, without its model field
chatPayload(bound, passed, messages) ==
    [parts |-> <<[type |-> "text",
                  text |-> messageText(
                      processedMessages(tools(bound, passed), messages))]>>]

BuildPayload(bound, passed, messages) ==
    /\ fPc = "idle"
    /\ fPc' = "sent"
    /\ fBound' = bound
    /\ fPassed' = passed
    /\ fMessages' = messages
    /\ fPayload' = chatPayload(bound, passed, messages)

BuildPayloadAny ==
    /\ fPc = "idle"
    /\ \E bound \in ToolChoices, passed \in ToolChoices, ms \in MessageLists :
          BuildPayload(bound, passed, ms)

FlatInit ==
    /\ fPc = "idle"
    /\ fBound = NoTools
    /\ fPassed = NoTools
    /\ fMessages = <<>>
    /\ fPayload = [parts |-> <<>>]

----------------------------------------------------------------------------
(* The chat model adapter: tool calls read from the reply.  A reply text   *)
(* is a sequence of chunks, one for each stretch of the text that the      *)
(* pattern of parseToolCalls tells apart:                                  *)
(*   text    prose without a brace                                         *)
(*   brace   prose that holds an opening brace, as in  see {x}             *)
(*   call    {"tool": "a", "args": {}}                                     *)
(*   number  {"tool": 4, "x": "a", "args": {}}                             *)
(*   empty   {"tool": "", "x": "a", "args": {}}                            *)
(*   nested  {"tool": "a", "args": {"x": {}}}                              *)

MaxChunks == 2

ToolNames == {"a", "b"}
Chunks == {[kind |-> "text", tool |-> ""], [kind |-> "brace", tool |-> ""],
           [kind |-> "number", tool |-> "4"], [kind |-> "empty", tool |-> ""]}
            \cup {[kind |-> k, tool |-> n] : k \in {"call", "nested"}, n \in ToolNames}
Replies == UNION {[1..k -> Chunks] : k \in 0..MaxChunks}

\* the chunk holds "tool": ... "\w+" ... , "args": {...} }
hasPattern(chunk) == chunk.kind \in {"call", "number", "empty", "nested"}

\* the first chunk at or after k that completes the pattern, 0 if none
RECURSIVE nextPattern(_, _)
nextPattern(text, k) ==
    IF k > Len(text) THEN 0
    ELSE IF hasPattern(text[k]) THEN k
    ELSE nextPattern(text, k + 1)

\* responseText.match(jsonPattern): each match as the chunks from..to it
\* spans.  A match opens at the first brace and is lazy: it closes at the
\* first closing brace after the braces of args.
RECURSIVE matches(_, _)
matches(text, k) ==
    IF k > Len(text) THEN <<>>
    ELSE IF text[k].kind = "text" THEN matches(text, k + 1)
    ELSE LET to == nextPattern(text, k)
         IN IF to = 0 THEN <<>>
            ELSE <<[from |-> k, to |-> to]>> \o matches(text, to + 1)

\* JSON.parse(match): a match over more than one chunk starts with prose,
\* and the match of a nested chunk stops one brace short
parsedMatch(text, m) ==
    IF m.from # m.to \/ text[m.to].kind = "nested"
    THEN [ok |-> FALSE, toolIsString |-> FALSE, tool |-> ""]
    ELSE [ok |-> TRUE, toolIsString |-> text[m.to].kind # "number",
          tool |-> text[m.to].tool]

\* if (parsed.tool && typeof parsed.tool === 'string') toolCalls.push(...)
toolCallOf(parsed) ==
    IF parsed.ok /\ parsed.tool # "" /\ parsed.toolIsString
    THEN <<[name |-> parsed.tool, type |-> "tool_call"]>>
    ELSE <<>>

RECURSIVE toolCallsOfMatches(_, _)
toolCallsOfMatches(text, ms) ==
    IF ms = <<>> THEN <<>>
    ELSE toolCallOf(parsedMatch(text, ms[1])) \o toolCallsOfMatches(text, Tail(ms))

parseToolCalls(reply) ==
    toolCallsOfMatches(reply, matches(reply, 1))

\* variant: the reply is parsed whether or not there are tools
toolCallsAlways(ts, reply) == parseToolCalls(reply)

\* tools.length > 0 ? this.parseToolCalls(reply) : []
toolCalls(ts, reply) ==
    IF Len(ts) > 0 THEN parseToolCalls(reply) ELSE <<>>

\* new AIMessage(...): the content, and the tool calls if there are any
AIMessage(ts, reply) ==
    [content |-> reply, tool_calls |-> toolCalls(ts, reply)]

ParseReply(bound, passed, reply) ==
    /\ kPc = "idle"
    /\ kPc' = "done"
    /\ kBound' = bound
    /\ kPassed' = passed
    /\ kReply' = reply
    /\ kMessage' = AIMessage(tools(bound, passed), reply)

ParseReplyAny ==
    /\ kPc = "idle"
    /\ \E bound \in ToolChoices, passed \in ToolChoices, text \in Replies :
          ParseReply(bound, passed, text)

CallInit ==
    /\ kPc = "idle"
    /\ kBound = NoTools
    /\ kPassed = NoTools
    /\ kReply = <<>>
    /\ kMessage = [content |-> <<>>, tool_calls |-> <<>>]

----------------------------------------------------------------------------
(* The optional fields of the message payload in send and sendAsync        *)

MessageSites == {"send", "sendAsync"}
StringOptions == {<<>>, <<"a">>}
NoReplyOptions == {"unset", "on", "off"}
\* options.tools: not set, or the text typed into the field
ToolsOptions == {[set |-> FALSE, text |-> <<>>]}
                    \cup {[set |-> TRUE, text |-> t] : t \in Texts}
MessageOptions == [agent : StringOptions, messageID : StringOptions,
                   system : StringOptions, noReply : NoReplyOptions,
                   tools : ToolsOptions]

Absent == [has |-> FALSE, text |-> <<>>, num |-> 0]
TextField(t) == [has |-> TRUE, text |-> t, num |-> 0]
NumberField(n) == [has |-> TRUE, text |-> <<>>, num |-> n]

\* if (value) payload.field = value
optionalField(t) == IF t # <<>> THEN TextField(t) ELSE Absent

\* (options.tools as string) || ''
toolsJsonOf(opt) == IF opt.set THEN opt.text ELSE <<>>

\* variant: a text that is not JSON is sent as it is
toolsFieldRaw(toolsJson) ==
    IF toolsJson = <<>> THEN Absent
    ELSE IF JSONParse(toolsJson).ok THEN NumberField(JSONParse(toolsJson).value)
    ELSE TextField(toolsJson)

\* if (toolsJson) { try { payload.tools = JSON.parse(toolsJson) } catch {} }
toolsField(toolsJson) ==
    IF toolsJson = <<>> THEN Absent
    ELSE IF JSONParse(toolsJson).ok THEN NumberField(JSONParse(toolsJson).value)
    ELSE Absent

\* the payload without its parts and model fields
messagePayload(options) ==
    [agent |-> optionalField(options.agent),
     messageID |-> optionalField(options.messageID),
     system |-> optionalField(options.system),
     noReply |-> options.noReply = "on",
     tools |-> toolsField(toolsJsonOf(options.tools))]

\* the handler up to its message request
BuildMessage(s, options) ==
    /\ uPc = "idle"
    /\ uPc' = "sending"
    /\ uSite' = s
    /\ uOptions' = options
    /\ uRequests' = <<[path |-> Endpoint(s), body |-> messagePayload(options)]>>
    /\ UNCHANGED uOutcome

\* the message request settles
MessageSettles(res) ==
    /\ uPc = "sending"
    /\ uPc' = "done"
    /\ uOutcome' = IF openCodeApiRequest(res) = "threw" THEN Error("action", res)
                   ELSE Value("record")
    /\ UNCHANGED <<uSite, uOptions, uRequests>>

BuildMessageAny ==
    /\ uPc = "idle"
    /\ \E s \in MessageSites, options \in MessageOptions : BuildMessage(s, options)

MessageSettlesAny == \E res \in HttpResults : MessageSettles(res)

ToolsInit ==
    /\ uPc = "idle"
    /\ uSite = "send"
    /\ uOptions = [agent |-> <<>>, messageID |-> <<>>, system |-> <<>>,
                   noReply |-> "unset", tools |-> [set |-> FALSE, text |-> <<>>]]
    /\ uRequests = <<>>
    /\ uOutcome = None

Init == LifeInit /\ TextInit /\ ModelInit /\ OptInit /\ ShellInit /\
        CommandInit /\ ExecInit /\ ChatInit /\ ApiInit /\ HistInit /\
        ConcInit /\ FlatInit /\ CallInit /\ ToolsInit

notLifeVars ==
    <<textVars, modelVars, optVars, shellVars, cmdVars, execVars, chatVars,
      apiVars, histVars, concVars, flatVars, callVars, toolsVars>>

Next ==
    \/ StartAny /\ UNCHANGED notLifeVars
    \/ CreateReturnsAny /\ UNCHANGED notLifeVars
    \/ CreateFailsAny /\ UNCHANGED notLifeVars
    \/ SendReturnsAny /\ UNCHANGED notLifeVars
    \/ SendFailsAny /\ UNCHANGED notLifeVars
    \/ SendAborted /\ UNCHANGED notLifeVars
    \/ DeleteSettlesAny /\ UNCHANGED notLifeVars

Spec == Init /\ [][Next]_vars

notTextVars ==
    <<lifeVars, modelVars, optVars, shellVars, cmdVars, execVars, chatVars,
      apiVars, histVars, concVars, flatVars, callVars, toolsVars>>

TextNext ==
    \/ SendRespondsAny /\ UNCHANGED notTextVars
    \/ ToolResponds /\ UNCHANGED notTextVars

SpecText == Init /\ [][TextNext]_vars

notModelVars ==
    <<lifeVars, textVars, optVars, shellVars, cmdVars, execVars, chatVars,
      apiVars, histVars, concVars, flatVars, callVars, toolsVars>>

ModelNext ==
    \/ LoadModelAny /\ UNCHANGED notModelVars
    \/ DecodeModelAny /\ UNCHANGED notModelVars

SpecModel == Init /\ [][ModelNext]_vars

notOptVars ==
    <<lifeVars, textVars, modelVars, shellVars, cmdVars, execVars, chatVars,
      apiVars, histVars, concVars, flatVars, callVars, toolsVars>>

OptNext == LoadOptionsAny /\ UNCHANGED notOptVars

SpecOptions == Init /\ [][OptNext]_vars

notShellVars ==
    <<lifeVars, textVars, modelVars, optVars, cmdVars, execVars, chatVars,
      apiVars, histVars, concVars, flatVars, callVars, toolsVars>>

ShellNext ==
    \/ ExecuteShellRespondsAny /\ UNCHANGED notShellVars
    \/ ExecuteSkillRespondsAny /\ UNCHANGED notShellVars

SpecShell == Init /\ [][ShellNext]_vars

notCmdVars ==
    <<lifeVars, textVars, modelVars, optVars, shellVars, execVars, chatVars,
      apiVars, histVars, concVars, flatVars, callVars, toolsVars>>

CommandNext == ExecuteCommandBuildsAny /\ UNCHANGED notCmdVars

SpecCommand == Init /\ [][CommandNext]_vars

notExecVars ==
    <<lifeVars, textVars, modelVars, optVars, shellVars, cmdVars, chatVars,
      apiVars, histVars, concVars, flatVars, callVars, toolsVars>>

ExecNext ==
    \/ ExecuteAny /\ UNCHANGED notExecVars
    \/ ItemHandledAny /\ UNCHANGED notExecVars
    \/ ExecuteReturns /\ UNCHANGED notExecVars

SpecExecute == Init /\ [][ExecNext]_vars

notChatVars ==
    <<lifeVars, textVars, modelVars, optVars, shellVars, cmdVars, execVars,
      apiVars, histVars, concVars, flatVars, callVars, toolsVars>>

ChatNext ==
    \/ GenerateAny /\ UNCHANGED notChatVars
    \/ ChatCreateReturnsAny /\ UNCHANGED notChatVars
    \/ ChatCreateFailsAny /\ UNCHANGED notChatVars
    \/ FetchResolvesAny /\ UNCHANGED notChatVars
    \/ FetchRejects /\ UNCHANGED notChatVars
    \/ TimerFires /\ UNCHANGED notChatVars
    \/ BodyReadAny /\ UNCHANGED notChatVars
    \/ Tick /\ UNCHANGED notChatVars
    \/ ChatDeleteSettlesAny /\ UNCHANGED notChatVars

SpecChat == Init /\ [][ChatNext]_vars

notApiVars ==
    <<lifeVars, textVars, modelVars, optVars, shellVars, cmdVars, execVars,
      chatVars, histVars, concVars, flatVars, callVars, toolsVars>>

ApiNext ==
    \/ ApiRequestAny /\ UNCHANGED notApiVars
    \/ ApiReturnsAny /\ UNCHANGED notApiVars
    \/ ApiThrowsAny /\ UNCHANGED notApiVars

SpecApi == Init /\ [][ApiNext]_vars

notConcVars ==
    <<lifeVars, textVars, modelVars, optVars, shellVars, cmdVars, execVars,
      chatVars, apiVars, histVars, flatVars, callVars, toolsVars>>

ConcNext ==
    \/ XSupplyAny /\ UNCHANGED notConcVars
    \/ XStartAny /\ UNCHANGED notConcVars
    \/ XCreateReturnsAny /\ UNCHANGED notConcVars
    \/ XCreateFailsAny /\ UNCHANGED notConcVars
    \/ XSendSettlesAny /\ UNCHANGED notConcVars
    \/ XDeleteSettlesAny /\ UNCHANGED notConcVars

SpecConcurrent == Init /\ [][ConcNext]_vars

notFlatVars ==
    <<lifeVars, textVars, modelVars, optVars, shellVars, cmdVars, execVars,
      chatVars, apiVars, histVars, concVars, callVars, toolsVars>>

FlatNext == BuildPayloadAny /\ UNCHANGED notFlatVars

SpecFlatten == Init /\ [][FlatNext]_vars

notCallVars ==
    <<lifeVars, textVars, modelVars, optVars, shellVars, cmdVars, execVars,
      chatVars, apiVars, histVars, concVars, flatVars, toolsVars>>

CallNext == ParseReplyAny /\ UNCHANGED notCallVars

SpecToolCalls == Init /\ [][CallNext]_vars

notToolsVars ==
    <<lifeVars, textVars, modelVars, optVars, shellVars, cmdVars, execVars,
      chatVars, apiVars, histVars, concVars, flatVars, callVars>>

ToolsNext ==
    \/ BuildMessageAny /\ UNCHANGED notToolsVars
    \/ MessageSettlesAny /\ UNCHANGED notToolsVars

SpecTools == Init /\ [][ToolsNext]_vars

----------------------------------------------------------------------------
(* Properties of the session lifecycle *)

Deletes == SelectSeq(requests, LAMBDA q : q.method = "DELETE")
Creates == SelectSeq(requests, LAMBDA q : q.method = "POST" /\ q.path = "session")

\* C1: in temporary mode, at every call site and for every outcome of the
\* inner request, once create-session has returned an id the finished
\* invocation has issued exactly one DELETE, for the id the service handed out
C1_ExactlyOneDelete ==
    /\ Len(Deletes) <= 1
    /\ (pc = "done" /\ sessionMode = "temporary" /\ shouldDeleteSession
            /\ sessionId # NoId)
        => Deletes = <<DeleteRequest(TempId(nextId - 1))>>

C1_Witness ==
    /\ pc = "done" /\ sessionMode = "temporary" /\ site = "chat"
    /\ inner.kind = "error" /\ sessionId # NoId
    /\ Len(Deletes) = 1

\* C2: in the action handlers in temporary mode the caller sees exactly the
\* outcome of the inner request, whether the cleanup DELETE succeeds or fails
C2_OutcomePreserved ==
    (pc = "done" /\ site \in ActionSites /\ sessionMode = "temporary"
        /\ inner.kind # "none")
    => outcome = inner

C2_Witness ==
    /\ pc = "done" /\ site \in ActionSites /\ sessionMode = "temporary"
    /\ inner.kind = "error" /\ deleteResult = "transport"
    /\ outcome = inner

\* C3: in the chat-model adapter in temporary mode a failed cleanup DELETE
\* (non-success status or transport error) never replaces the outcome of the
\* send
C3_ChatDeleteSwallowed ==
    (pc = "done" /\ site = "chat" /\ sessionMode = "temporary"
        /\ inner.kind # "none")
    => outcome = inner

\* C4: in existing mode no POST /session and no DELETE is ever issued: the only
\* request is the action request against the configured session, which stays
\* in place on the remote service
C4_ExistingNoCreateNoDelete ==
    /\ ExistingId \in remote
    /\ (sessionMode = "existing" /\ pc # "idle")
        => /\ Len(requests) <= 1
           /\ \A i \in 1..Len(requests) :
                requests[i] = ActionRequest(site, cfgSessionId)

C4_Witness ==
    /\ pc = "done" /\ sessionMode = "existing" /\ invocations >= 2
    /\ inner.kind = "value"
    /\ requests = <<ActionRequest(site, ExistingId)>>

\* C5: in existing mode with no session id supplied every call site fails
\* with a missing-parameter error and issues no network request
C5_MissingSessionFails ==
    (sessionMode = "existing" /\ cfgSessionId = NoId /\ pc # "idle")
    => /\ requests = <<>>
       /\ pc = "done"
       /\ outcome = Error("session", "missing")

\* C6 as stated: an invocation issues at most two network calls
C6_AtMostTwoCalls == Len(requests) <= 2

\* C6 amended: an invocation issues at most three sequential calls in
\* temporary mode (create-session, the action request, delete-session, in
\* this order) and at most one, the action request, in existing mode
C6_AtMostThreeCalls ==
    /\ Len(requests) <= (IF sessionMode = "temporary" THEN 3 ELSE 1)
    /\ \A i \in 1..Len(requests) :
        IF sessionMode = "temporary"
        THEN /\ i = 1 => requests[i] = CreateRequest
             /\ i = 2 => requests[i] = ActionRequest(site, sessionId)
             /\ i = 3 => requests[i] = DeleteRequest(sessionId)
        ELSE requests[i] = ActionRequest(site, sessionId)

C6_Witness ==
    /\ pc = "done" /\ Len(requests) = 3
    /\ requests[1].method = "POST" /\ requests[3].method = "DELETE"

----------------------------------------------------------------------------
(* Properties of the response flattening *)

\* the text fields of the text-typed parts among the first i parts, joined by
\* newline in their original order
RECURSIVE C7_Flat(_, _)
C7_Flat(ps, i) ==
    IF i = 0 THEN <<>>
    ELSE LET before == C7_Flat(ps, i - 1)
             mine == IF ps[i].hasText THEN ps[i].text ELSE <<>>
         IN IF ps[i].type # "text" THEN before
            ELSE IF \E j \in 1..(i - 1) : ps[j].type = "text"
                 THEN before \o <<"\n">> \o mine
                 ELSE mine

\* r is t without its leading and trailing white space
C7_IsTrimOf(r, t) ==
    \E a \in 1..(Len(t) + 1), b \in 0..Len(t) :
        /\ r = SubSeq(t, a, b)
        /\ \A k \in 1..Len(t) : (k < a \/ k > b) => t[k] \in {" ", "\n"}
        /\ r # <<>> => (r[1] \notin {" ", "\n"} /\ r[Len(r)] \notin {" ", "\n"})

\* C7: the flattened text of send is the newline-joined text of the
\* text-typed parts in their original order, trimmed exactly when the trim
\* option is on (an unset option takes its default, on)
C7_FlattenedText ==
    tPc = "done" =>
        LET ps == tResponse.parts
            joined == C7_Flat(ps, Len(ps))
        IN IF tTrimOpt = "off"
           THEN tText = joined
           ELSE C7_IsTrimOf(tText, joined)

C7_Witness ==
    /\ tPc = "done" /\ tTrimOpt = "off"
    /\ Len(tResponse.parts) = 2
    /\ tResponse.parts[1] = [type |-> "text", hasText |-> TRUE, text |-> <<"a">>]
    /\ tResponse.parts[2] = [type |-> "text", hasText |-> TRUE, text |-> <<"4">>]
    /\ tText = <<"a", "\n", "4">>

C8_Keyed == [kind |-> "keyed",
             key |-> IF tKeyOpt = <<>> THEN <<"r">> ELSE tKeyOpt,
             text |-> tText, num |-> 0]

C8_IsNumber(t) ==
    /\ \E i \in 1..Len(t) : t[i] = "4"
    /\ \A i \in 1..Len(t) : t[i] \in {"4", " ", "\n"}
    /\ \A i, j, k \in 1..Len(t) :
        (i < j /\ j < k /\ t[i] = "4" /\ t[k] = "4") => t[j] = "4"

C8_Digits(t) == Cardinality({i \in 1..Len(t) : t[i] = "4"})

----------------------------------------------------------------------------
(* Properties of the model selector and of the option providers *)

C9_HasSeparator(t) == \E i \in 1..(Len(t) - 1) : t[i] = ":" /\ t[i + 1] = ":"

\* C9: for every providerID and modelID without "::", decoding the option
\* value providerID::modelID in a message handler puts exactly
\* {providerID, modelID} into payload.model
C9_RoundTrip ==
    (mPc = "decoded" /\ ~C9_HasSeparator(mProvider) /\ ~C9_HasSeparator(mModel))
    => mPayload = [kind |-> "pair", providerID |-> mProvider,
                   modelID |-> mModel, str |-> <<>>]

\* C10: every option provider returns a non-empty list for every response,
\* exactly one sentinel entry on a failure, and never throws
C10_NeverEmpty ==
    oPc = "done" =>
        /\ ~oThrew
        /\ Len(oResult) >= 1
        /\ oResponse.kind = "fail" => Len(oResult) = 1

----------------------------------------------------------------------------
(* Properties of the shell and skill output *)

\* what one part adds to the shell output
C11_Contribution(p) ==
    IF p.type = "tool" /\ p.hasState
    THEN IF p.hasOutput /\ Len(p.output) > 0 THEN p.output
         ELSE IF p.hasMeta THEN p.meta
         ELSE <<>>
    ELSE <<>>

RECURSIVE C11_Concat(_)
C11_Concat(ps) ==
    IF ps = <<>> THEN <<>> ELSE C11_Contribution(Head(ps)) \o C11_Concat(Tail(ps))

\* C11: the output of the shell action is the concatenation, in part order,
\* of state.output (state.metadata.output when state.output is absent or
\* empty) of the tool-typed parts that carry a state; text-typed parts add
\* nothing; the result is trimmed exactly when the trim option is on
C11_ShellOutput ==
    (sPc = "done" /\ sSite = "shell") =>
        /\ sRaw = C11_Concat(sResponse.parts)
        /\ IF sTrimOpt = "off" THEN sOutput = sRaw ELSE C7_IsTrimOf(sOutput, sRaw)

C11_Witness ==
    /\ sPc = "done" /\ sSite = "shell"
    /\ Len(sResponse.parts) = 2
    /\ sResponse.parts[1].type = "text" /\ sResponse.parts[1].text = <<"t">>
    /\ sResponse.parts[2].type = "tool" /\ sResponse.parts[2].hasState
    /\ ~sResponse.parts[2].hasOutput /\ sResponse.parts[2].meta = <<"b">>
    /\ sOutput = <<"b">>

\* C12 as stated: the output of the skill action is read from the tool-typed
\* parts' state.output with the metadata fallback, not from the text parts
C12_SkillFromTools ==
    (sPc = "done" /\ sSite = "skill") => sRaw = C11_Concat(sResponse.parts)

\* C12 amended: the output of the skill action is the newline-joined text of
\* the text-typed parts, trimmed exactly when the trim option is on; the state
\* of a tool part adds nothing
C12_SkillFromText ==
    (sPc = "done" /\ sSite = "skill") =>
        /\ sRaw = C7_Flat(sResponse.parts, Len(sResponse.parts))
        /\ IF sTrimOpt = "off" THEN sOutput = sRaw ELSE C7_IsTrimOf(sOutput, sRaw)

C12_Witness ==
    /\ sPc = "done" /\ sSite = "skill"
    /\ Len(sResponse.parts) = 2
    /\ sResponse.parts[1].type = "text" /\ sResponse.parts[1].text = <<"t">>
    /\ sResponse.parts[2].type = "tool" /\ sResponse.parts[2].hasState
    /\ sResponse.parts[2].output = <<"a">>
    /\ sOutput = <<"t">>

----------------------------------------------------------------------------
(* Properties of the command payload *)

\* C13: the command action never fails on its arguments and sends
\* payload.arguments = {input: raw} for a non-empty string that is not JSON,
\* the parsed value for valid JSON, and {} for the empty string
C13_Arguments ==
    cPc # "idle" =>
        /\ cPc = "built"
        /\ cPayload.arguments =
             IF cRaw = <<>> THEN [kind |-> "object", num |-> 0, str |-> <<>>]
             ELSE IF C8_IsNumber(cRaw)
                  THEN [kind |-> "json", str |-> <<>>,
                        num |-> 4 * ((10 ^ C8_Digits(cRaw) - 1) \div 9)]
                  ELSE [kind |-> "input", num |-> 0, str |-> cRaw]

\* the same for the source that parses the arguments
C13_ParsedSource ==
    cSource = "command" => C13_Arguments

----------------------------------------------------------------------------
(* Properties of the dispatch and of the execute loop *)

\* the items whose iteration has ended
C14_Handled == IF ePc = "threw" THEN eIndex + 1 ELSE eIndex

C14_UnknownErrors ==
    {"Unknown resource", "Unknown session operation", "Unknown message operation",
     "Unknown config operation"}

C14_Offered(r, o) ==
    \/ r = "session" /\ o \in {"list", "get", "create", "delete", "abort", "status"}
    \/ r = "message" /\ o \in {"send", "sendAsync", "command", "shell", "skill",
                               "list", "get"}
    \/ r = "config" /\ o = "getProviders"

\* C14: with a resource that is not one of the three known ones, or an
\* operation that is not known for its resource, every item fails with an
\* unknown-resource or unknown-operation error and no network request (so
\* no session creation) is issued for it
C14_UnknownFailsFirst ==
    (ePc # "idle" /\ ~C14_Offered(eResource, eOperation)) =>
        /\ eCalls = <<>>
        /\ Len(eFailed) = C14_Handled
        /\ \A k \in 1..Len(eFailed) :
            /\ eFailed[k].item = k - 1
            /\ eFailed[k].error.kind = "error"
            /\ eFailed[k].error.val[1] \in C14_UnknownErrors

C14_Witness ==
    /\ ePc = "returned" /\ eResource = "other" /\ eOperation = "send"
    /\ eItems = 2 /\ Len(eFailed) = 2 /\ eCalls = <<>>

\* C15: for every resource and operation the node offers, the dispatch
\* reaches a handler: no item fails with an unknown-resource or
\* unknown-operation error
C15_OfferedIsRouted ==
    C14_Offered(eResource, eOperation) =>
        \A k \in 1..Len(eFailed) : eFailed[k].error.val[1] \notin C14_UnknownErrors

C16_ErrorsOf(i) ==
    {k \in 1..Len(eReturnData) :
        eReturnData[k].kind = "error" /\ eReturnData[k].item = i}

C16_RecordsOf(i) == {k \in 1..Len(eReturnData) : eReturnData[k].item = i}

----------------------------------------------------------------------------
(* Properties of the chat-model adapter's timeout *)

\* C17: the send call of _generate (the request and the reading of its
\* response) is never pending after the configured timeout has elapsed, and
\* a call the timer ended fails with the request-timeout error
C17_TimeoutBoundsSend ==
    /\ gPc \in {"fetching", "reading"} => gClock <= gTimeout
    /\ gTimer = "fired" => gOutcome \in {Error("send", "timeout"), Error("delete", "transport")}

\* the part of C17 that holds: while the request itself is pending the
\* timeout is not exceeded
C17_TimeoutBoundsFetch ==
    gPc = "fetching" => gClock <= gTimeout

----------------------------------------------------------------------------
(* Properties of the transport client *)

\* C18: a call through the transport client makes exactly one attempt, and
\* every failure of it, a transport failure as well as a non-success status,
\* reaches the caller as the one error 'OpenCode API request failed: ...'
\* that wraps the underlying message
C18_OneWrappedError ==
    /\ aPc # "idle" => aAttempts = 1
    /\ aPc = "threw" =>
        /\ aResult.kind = "error"
        /\ aResult.val[1] = "OpenCode API request failed"
        /\ aResult.val[2] = (IF aCause = "" THEN "Unknown error" ELSE aCause)
    /\ aPc = "returned" => aResult.kind = "value"

C18_Witness ==
    /\ aPc = "threw" /\ aFailure = "transport" /\ aCause = "timeout"
    /\ aAttempts = 1
    /\ aResult = Error("OpenCode API request failed", "timeout")

----------------------------------------------------------------------------
(* The tool adapter against the send action *)

----------------------------------------------------------------------------
(* The tool and chat-model adapters over several invocations *)

notAdapterVars == <<textVars, modelVars, optVars, shellVars, cmdVars, execVars,
                    chatVars, apiVars, concVars, flatVars, callVars, toolsVars>>

\* the requests the step adds to the running invocation
newRequests == SubSeq(requests', Len(requests) + 1, Len(requests'))

\* the step belongs to the invocation that is running
Logged(made) ==
    /\ hLog' = [hLog EXCEPT ![Len(hLog)] = observe(@, newRequests, made)]
    /\ UNCHANGED <<hPc, hSite, hMode, hCfg>>

\* supplyData: the parameters are read once and closed over by the callable
SupplyData(s, m, c) ==
    /\ hPc = "unsupplied"
    /\ hPc' = "supplied"
    /\ hSite' = s
    /\ hMode' = m
    /\ hCfg' = c
    /\ UNCHANGED <<hLog, lifeVars>>

SupplyDataAny ==
    \E s \in AdapterSites, m \in SessionModes, c \in ConfiguredIds : SupplyData(s, m, c)

\* one more invocation of the supplied callable
AdapterStart ==
    /\ hPc = "supplied"
    /\ Start(hSite, hMode, hCfg)
    /\ hLog' = Append(hLog, observe(NewEntry, requests', <<>>))
    /\ UNCHANGED <<hPc, hSite, hMode, hCfg>>

AdapterCreateReturns == CreateReturnsAny /\ Logged(<<sessionId'>>)
AdapterCreateFails == CreateFailsAny /\ Logged(<<>>)
AdapterSendReturns == SendReturnsAny /\ Logged(<<>>)
AdapterSendFails == SendFailsAny /\ Logged(<<>>)
AdapterSendAborted == SendAborted /\ Logged(<<>>)
AdapterDeleteSettles == DeleteSettlesAny /\ Logged(<<>>)

AdapterNext ==
    \/ SupplyDataAny /\ UNCHANGED notAdapterVars
    \/ AdapterStart /\ UNCHANGED notAdapterVars
    \/ AdapterCreateReturns /\ UNCHANGED notAdapterVars
    \/ AdapterCreateFails /\ UNCHANGED notAdapterVars
    \/ AdapterSendReturns /\ UNCHANGED notAdapterVars
    \/ AdapterSendFails /\ UNCHANGED notAdapterVars
    \/ AdapterSendAborted /\ UNCHANGED notAdapterVars
    \/ AdapterDeleteSettles /\ UNCHANGED notAdapterVars

SpecAdapters == Init /\ [][AdapterNext]_vars

C20_Quiet == hPc = "supplied" /\ hMode = "temporary" /\ pc \in {"idle", "done"}

\* ids an invocation put into a request
C20_Touched(e) == e.used \cup {e.deleted[k] : k \in 1..Len(e.deleted)}

\* each invocation uses only the id its own create returned, and no id is
\* used by two invocations
C20_OwnIds ==
    /\ \A n \in 1..Len(hLog) :
        C20_Touched(hLog[n]) \subseteq {hLog[n].created[k] : k \in 1..Len(hLog[n].created)}
    /\ \A n, m \in 1..Len(hLog) :
        n # m => (C20_Touched(hLog[n]) \cap C20_Touched(hLog[m])) \subseteq {NoId}

\* C20 as stated: in temporary mode, after N invocations of one supplied
\* tool or chat model, N sessions have been created and N deletes attempted,
\* each invocation used only the id it created and no id was used twice
C20_NSessionsNDeletes ==
    C20_Quiet =>
        /\ Len(hLog) = invocations
        /\ \A n \in 1..Len(hLog) :
            /\ Len(hLog[n].created) = 1
            /\ Len(hLog[n].deleted) = 1
        /\ C20_OwnIds

\* C20 amended: in temporary mode every invocation issues its own
\* create-session request; an invocation whose create returned an id uses
\* that id for its one message request and attempts exactly one delete of
\* it; an invocation whose create failed, or (chat model) returned no id,
\* attempts no delete; no id is used by two invocations
C20_SessionPerInvocation ==
    C20_Quiet =>
        /\ Len(hLog) = invocations
        /\ \A n \in 1..Len(hLog) :
            LET e == hLog[n] IN
            /\ e.creates = 1
            /\ Len(e.created) <= 1
            /\ (Len(e.created) = 1 /\ e.created[1] # NoId) =>
                    (e.used = {e.created[1]} /\ e.deleted = e.created)
            /\ e.created = <<>> => (e.used = {} /\ e.deleted = <<>>)
            /\ (hSite = "chat" /\ e.created = <<NoId>>) =>
                    (e.used = {} /\ e.deleted = <<>>)
        /\ C20_OwnIds

C20_Witness ==
    /\ C20_Quiet /\ invocations = 3 /\ Len(hLog) = 3
    /\ hLog[1].deleted = <<TempId(1)>> /\ hLog[1].used = {TempId(1)}
    /\ hLog[2].created = <<>> /\ hLog[2].deleted = <<>>
    /\ hLog[3].deleted = <<TempId(2)>> /\ hLog[3].used = {TempId(2)}

----------------------------------------------------------------------------
(* Order of the requests of one invocation *)

C21_Order == <<CreateRequest, ActionRequest(site, sessionId), DeleteRequest(sessionId)>>

----------------------------------------------------------------------------
(* Isolation of interleaved invocations *)

\* the temporary sessions invocation p put into a message or delete request
C22_Touched(p) ==
    {xReqs[p][k].id : k \in {j \in 1..Len(xReqs[p]) : xReqs[p][j] # CreateRequest}}
        \ {NoId, ExistingId}

\* C22: when invocations run interleaved in temporary mode, each one sends to
\* and deletes only the session the service created for it, never the
\* session of another invocation, and the configured session id stays what
\* it was when the tool or model was supplied
C22_Isolated ==
    xSupplied =>
        /\ xField = xCfg
        /\ \A p \in Calls : \A id \in C22_Touched(p) : <<id, p>> \in xOwner
        /\ \A p, q \in Calls : p # q => C22_Touched(p) \cap C22_Touched(q) = {}

\* two invocations interleaved: both created before either sent
C22_Witness ==
    /\ xSupplied /\ xMode = "temporary" /\ xSite = "chat"
    /\ xOwner = {<<TempId(1), 2>>, <<TempId(2), 1>>}
    /\ xPc[1] = "done" /\ xPc[2] = "deleting"
    /\ C22_Touched(1) = {TempId(2)} /\ C22_Touched(2) = {TempId(1)}

----------------------------------------------------------------------------
(* The execute loop without continue-on-failure, and the order of records *)

\* C23: without continue-on-failure the first failing item ends execute with
\* the error of its handler: the loop stops at that item, no request is
\* issued for a later item, and the host gets no records, not even those of
\* the items that succeeded before
C23_FirstFailureEnds ==
    (~eContinue /\ eFailed # <<>>) =>
        /\ ePc = "threw"
        /\ Len(eFailed) = 1
        /\ eFailed[1].item = eIndex
        /\ eThrown = eFailed[1].error
        /\ eOutput.kind = "none"
        /\ \A k \in 1..Len(eCalls) : eCalls[k].item <= eIndex
        /\ \A k \in 1..Len(eReturnData) :
            eReturnData[k].kind = "data" /\ eReturnData[k].item < eIndex

C23_Witness ==
    /\ ~eContinue /\ ePc = "threw" /\ eItems = 2 /\ eIndex = 0
    /\ eThrown = Error("action", "transport")
    /\ eCalls = <<[item |-> 0, kind |-> "action"]>>
    /\ eOutput.kind = "none"

\* C30: the records of execute are in input-item order and each is paired
\* with the index of the item it came from: for i < j every record of item
\* i precedes every record of item j, with or without continue-on-failure,
\* and what execute returns is exactly this list
C30_ItemOrder ==
    /\ \A k \in 1..Len(eReturnData) :
        /\ eReturnData[k].item \in 0..(eItems - 1)
        /\ eReturnData[k].item <= eIndex
    /\ \A k, l \in 1..Len(eReturnData) :
        k < l => eReturnData[k].item <= eReturnData[l].item
    /\ ePc = "returned" => eOutput = [kind |-> "value", val |-> eReturnData]

C30_Witness ==
    /\ ePc = "returned" /\ eItems = 2 /\ eOperation = "list"
    /\ Len(eOutput.val) = 3
    /\ eOutput.val[1].item = 0 /\ eOutput.val[2].item = 0 /\ eOutput.val[3].item = 1
    /\ eOutput.val[3].kind = "error"

----------------------------------------------------------------------------
(* The text of the chat model adapter's message request                    *)

C24_Markers == {<<"[System]: ">>, <<"[User]: ">>, <<"[Assistant]: ">>}

\* the marker of a role; a role without one may get any of the three
C24_MarkersOf(type) ==
    IF type = "system" THEN {<<"[System]: ">>}
    ELSE IF type = "human" THEN {<<"[User]: ">>}
    ELSE IF type = "ai" THEN {<<"[Assistant]: ">>}
    ELSE C24_Markers

RECURSIVE C24_Lines(_)
C24_Lines(ps) ==
    IF ps = <<>> THEN <<>>
    ELSE IF ps[1].type # "text" THEN C24_Lines(Tail(ps))
    ELSE ps[1].text
            \o (IF C24_Lines(Tail(ps)) = <<>> THEN <<>> ELSE <<Newline>>)
            \o C24_Lines(Tail(ps))

C24_Text(content) ==
    IF content.kind = "string" THEN content.text ELSE C24_Lines(content.parts)

\* the messages in their order, each after a marker, a blank line between
RECURSIVE C24_Flattenings(_)
C24_Flattenings(ms) ==
    IF ms = <<>> THEN {<<>>}
    ELSE {marker \o C24_Text(ms[1].content)
              \o (IF Len(ms) > 1 THEN <<Newline, Newline>> ELSE <<>>) \o rest :
             marker \in C24_MarkersOf(ms[1].type),
             rest \in C24_Flattenings(Tail(ms))}

C24_ToolGiven ==
    \/ fBound.set /\ fBound.tools # <<>>
    \/ fPassed.set /\ fPassed.tools # <<>>

C24_Given ==
    IF fBound.set /\ fBound.tools # <<>> THEN fBound.tools ELSE fPassed.tools

\* C24: the request has exactly one text part; its text is the messages in
\* their order, each prefixed with its role marker and joined by a blank
\* line, after the tool instruction as a system message when at least one
\* tool is bound or passed.
C24_OneFlattenedPart ==
    (fPc = "sent") =>
        /\ Len(fPayload.parts) = 1
        /\ fPayload.parts[1].type = "text"
        /\ \E flat \in C24_Flattenings(fMessages) :
              fPayload.parts[1].text =
                  IF C24_ToolGiven
                  THEN <<"[System]: ">> \o formatToolsAsPrompt(C24_Given)
                          \o (IF fMessages = <<>> THEN <<>>
                              ELSE <<Newline, Newline>>)
                          \o flat
                  ELSE flat

----------------------------------------------------------------------------
(* The tool calls of the chat model adapter                                *)

C25_ToolGiven ==
    \/ kBound.set /\ kBound.tools # <<>>
    \/ kPassed.set /\ kPassed.tools # <<>>

\* C25: tool calls are emitted only when a tool is bound or passed; every
\* emitted call has a string name, the "tool" field of an object of the
\* reply; the reply text is returned as the content in every case.
C25_ToolCallsOnlyWithTools ==
    (kPc = "done") =>
        /\ kMessage.content = kReply
        /\ ~C25_ToolGiven => kMessage.tool_calls = <<>>
        /\ \A i \in 1..Len(kMessage.tool_calls) :
              /\ kMessage.tool_calls[i].name \in ToolNames
              /\ \E j \in 1..Len(kReply) :
                    /\ kReply[j].kind = "call"
                    /\ kReply[j].tool = kMessage.tool_calls[i].name

C25_Witness ==
    /\ kPc = "done"
    /\ kBound = [set |-> TRUE,
                 tools |-> <<[name |-> "a", description |-> "d",
                             hasSchema |-> FALSE]>>]
    /\ kReply = <<[kind |-> "number", tool |-> "4"], [kind |-> "call", tool |-> "a"]>>
    /\ kMessage.tool_calls = <<[name |-> "a", type |-> "tool_call"]>>
    /\ kMessage.content = kReply

----------------------------------------------------------------------------
(* A failing create-session request                                        *)

\* C26: in temporary mode, a failing create-session request ends the call
\* with the error of that request; the create request is the only request
\* of the call: no action request and no delete request is issued.
C26_CreateFailurePropagates ==
    /\ (outcome.kind = "error" /\ outcome.val[1] = "create") =>
          /\ pc = "done"
          /\ useTemporarySession(sessionMode)
          /\ outcome.val[2] \in HttpResults \ {"ok"}
          /\ requests = <<CreateRequest>>
    /\ (pc = "done" /\ useTemporarySession(sessionMode) /\ ~shouldDeleteSession) =>
          /\ outcome.kind = "error" /\ outcome.val[1] = "create"
          /\ requests = <<CreateRequest>>

C26_Witness ==
    /\ pc = "done"
    /\ site = "chat"
    /\ useTemporarySession(sessionMode)
    /\ outcome = Error("create", "transport")
    /\ requests = <<CreateRequest>>
    /\ ~shouldDeleteSession

----------------------------------------------------------------------------
(* Temporary sessions over the items of one execute call                   *)

\* the k-th request created a session: the action request of its item follows
C27_Created(k) ==
    /\ eCalls[k].kind = "create"
    /\ k < Len(eCalls)
    /\ eCalls[k + 1] = Call(eCalls[k].item, "action")

\* sessions created and not yet handed to a delete after the first n requests
C27_Live(n) ==
    Cardinality({k \in 1..n : C27_Created(k)})
        - Cardinality({k \in 1..n : eCalls[k].kind = "delete"})

C27_DeletedBetween(j, k) ==
    \E d \in (j + 1)..(k - 1) : eCalls[d] = Call(eCalls[j].item, "delete")

\* C27: over the requests of one execute call, at most one temporary
\* session is live at any moment; a create-session request is issued only
\* after every request of the earlier items, the delete of each earlier
\* created session included; when execute has returned or thrown, every
\* created session has its delete request.
C27_OneLiveSession ==
    /\ \A n \in 0..Len(eCalls) : C27_Live(n) \in {0, 1}
    /\ \A k \in 1..Len(eCalls) :
          eCalls[k].kind = "create" =>
              \A j \in 1..(k - 1) :
                  /\ eCalls[j].item < eCalls[k].item
                  /\ C27_Created(j) => C27_DeletedBetween(j, k)
    /\ ePc \in {"returned", "threw"} =>
          \A k \in 1..Len(eCalls) :
              C27_Created(k) => C27_DeletedBetween(k, Len(eCalls) + 1)

C27_Witness ==
    /\ ePc = "returned"
    /\ eContinue
    /\ eFailed = <<[item |-> 0, error |-> Error("action", "status")]>>
    /\ eCalls = <<Call(0, "create"), Call(0, "action"), Call(0, "delete"),
                  Call(1, "create"), Call(1, "action"), Call(1, "delete")>>

----------------------------------------------------------------------------
(* The abort timer of the chat model adapter in temporary mode             *)

\* C28: when the timer aborted the send in temporary mode, the delete of
\* the temporary session is the request issued after it and the caller gets
\* the timeout error; once the send is left, the timer is no longer armed.
C28_TimeoutThenDelete ==
    /\ (gTemp /\ gTimer = "fired") =>
          /\ gPc \in {"deleting", "done"}
          /\ gRequests[Len(gRequests)] = DeleteRequest(gSessionId)
          /\ gPc = "done" => gOutcome = Error("send", "timeout")
    /\ gPc \in {"deleting", "done"} => gTimer # "armed"

----------------------------------------------------------------------------
(* A tools option that is not JSON                                         *)

C29_NotJson == uOptions.tools.set /\ uOptions.tools.text # <<>>
                  /\ ~C8_IsNumber(uOptions.tools.text)

\* C29: in send and sendAsync a non-empty tools option that is not valid
\* JSON does not fail the action: the message request is issued, once, its
\* payload has no tools field, and the only error the action can end with is
\* the one of that request.
C29_InvalidToolsIgnored ==
    (uPc # "idle" /\ C29_NotJson) =>
        /\ Len(uRequests) = 1
        /\ uRequests[1].path = Endpoint(uSite)
        /\ ~uRequests[1].body.tools.has
        /\ uOutcome.kind = "error" => uOutcome.val[1] = "action"
        /\ uPc = "done" => uOutcome.kind # "none"

C29_Witness ==
    /\ uPc = "done"
    /\ uSite = "sendAsync"
    /\ uOptions.tools = [set |-> TRUE, text |-> <<"a">>]
    /\ uRequests = <<[path |-> "prompt_async", body |-> messagePayload(uOptions)]>>
    /\ ~uRequests[1].body.tools.has
    /\ uOutcome = Value("record")

====
